---------------------------- MODULE Spec2Model ----------------------------
(***************************************************************************)
(* A model of the note codec of lilypond-rs: the validating gate           *)
(* LilyPondNote::new, the named captures of LILYPOND_NOTE_REGEX, the       *)
(* decoders (LilyPondNote::to_note, Note::from, languages::                *)
(* note_from_lilypond) and the encoders (Note::to_lilypond_note,           *)
(* languages::lilypond_from_note).                                         *)
(*                                                                         *)
(* A Rust string is a sequence of one-character strings.  A Result is a    *)
(* record with a tag: "Ok" (field v), "Err" (field msg where the code      *)
(* builds a message) or "Panic" (a panic!, an unwrap of Err, an            *)
(* arithmetic overflow).                                                   *)
(*                                                                         *)
(* The lazy_static cells of the crate (the dialect, its name, its grammar  *)
(* string and the compiled pattern of the gate) are state: cells holds     *)
(* each cell's Once state, inits counts the runs of its initializer, and   *)
(* calls holds the call each thread of a concurrent run is making.         *)
(***************************************************************************)
EXTENDS Integers, Sequences, FiniteSets, TLC

VARIABLES text, ly, note, src, trail, cells, inits, calls

vars == <<text, ly, note, src, trail, cells, inits, calls>>

---------------------------------------------------------------------------
(* Bounds of the inputs drawn by the model. *)

\* the input strings carry 0..MaxCommas commas in the octave part
MaxCommas == 4
\* the input strings carry 0..MaxApostrophes apostrophes in the octave part
MaxApostrophes == 7
\* input strings and Note values carry 0..MaxDots dots
MaxDots == 2

(* Program constants. *)

\* english.rs / nederlands.rs: (?P<dot>\.{0,255})
DOT_FIELD_MAX == 255
\* lilypond_note.rs: (?P<dot>\.?)
GATE_DOT_MAX == 1
\* common.rs / note.rs / lilypond_note.rs: let mut octave_int: usize = 3
REFERENCE_OCTAVE == 3

---------------------------------------------------------------------------
(* Strings *)

Repeat(unit, k) == [i \in 1..(k * Len(unit)) |-> unit[((i - 1) % Len(unit)) + 1]]

Drop(s, k) == SubSeq(s, k + 1, Len(s))

Contains(s, c) == \E i \in 1..Len(s) : s[i] = c

\* str::matches(c).count()
Count(s, c) == Cardinality({i \in 1..Len(s) : s[i] = c})

---------------------------------------------------------------------------
(* Regular expressions.  Every pattern of the program is a sequence of     *)
(* five capture groups followed by $; a group is the ordered list of the   *)
(* strings its alternation can match, most preferred first (greedy         *)
(* repetition tries the longest first, alternation the leftmost first), so *)
(* that the first list entry that lets the rest of the pattern match is    *)
(* the one the backtracking matcher captures.                              *)

\* x{lo,hi}, greedy: hi repetitions first, lo last
Rep(unit, lo, hi) == [i \in 1..(hi - lo + 1) |-> Repeat(unit, hi - i + 1)]

\* x?
Opt(x) == <<x, <<>>>>

NoMatch == [ok |-> FALSE, caps |-> <<>>]

\* the string a is in s at position pos
IsAt(a, s, pos) ==
    /\ pos + Len(a) - 1 <= Len(s)
    /\ \A i \in 1..Len(a) : s[pos + i - 1] = a[i]

RECURSIVE MatchFrom(_, _, _, _)
RECURSIVE TryAlts(_, _, _, _, _)

\* groups g.. of the pattern against s from position pos, then the anchor $
MatchFrom(groups, g, s, pos) ==
    IF g > Len(groups)
    THEN IF pos = Len(s) + 1 THEN [ok |-> TRUE, caps |-> <<>>] ELSE NoMatch
    ELSE TryAlts(groups, g, s, pos, 1)

\* the alternatives i.. of group g in their order of preference; one that
\* is not at pos is passed over, one that is at pos but leaves the rest of
\* the pattern without a match is backtracked from
TryAlts(groups, g, s, pos, i) ==
    LET alts == groups[g]
        here == {j \in i..Len(alts) : IsAt(alts[j], s, pos)}
    IN  IF here = {}
        THEN NoMatch
        ELSE LET j == CHOOSE j \in here : \A k \in here : j <= k
                 r == MatchFrom(groups, g + 1, s, pos + Len(alts[j]))
             IN  IF r.ok
                 THEN [ok |-> TRUE, caps |-> <<alts[j]>> \o r.caps]
                 ELSE TryAlts(groups, g, s, pos, j + 1)

\* Regex::captures on a pattern anchored with ^
Match(groups, s) == MatchFrom(groups, 1, s, 1)

\* Regex::is_match
IsMatch(groups, s) == Match(groups, s).ok

\* a variant of the group index that takes duration for octave
GroupIndex_swapped(name) ==
    CASE name = "note_name"  -> 1
      [] name = "accidental" -> 2
      [] name = "octave"     -> 4
      [] name = "duration"   -> 3
      [] name = "dot"        -> 5

\* index of a named capture group
GroupIndex(name) ==
    CASE name = "note_name"  -> 1
      [] name = "accidental" -> 2
      [] name = "octave"     -> 3
      [] name = "duration"   -> 4
      [] name = "dot"        -> 5

---------------------------------------------------------------------------
(* The sub-patterns *)

\* a variant of the note name pattern that also takes h
NoteNameGroup_with_h ==
    << <<"a">>, <<"b">>, <<"c">>, <<"d">>, <<"e">>, <<"f">>, <<"g">>, <<"r">>, <<"h">> >>

\* (?P<note_name>[a-gr])
NoteNameGroup ==
    << <<"a">>, <<"b">>, <<"c">>, <<"d">>, <<"e">>, <<"f">>, <<"g">>, <<"r">> >>

\* a variant of the octave pattern with ,{0,4}: it lets "c,,,," through
OctaveGroup_four_commas == Rep(<<",">>, 0, 4) \o Rep(<<"'">>, 0, 6) \o << <<>> >>

\* (?P<octave>(?:(?:,{0,3})|(?:'{0,6}))?)
OctaveGroup == Rep(<<",">>, 0, 3) \o Rep(<<"'">>, 0, 6) \o << <<>> >>

\* a variant of the duration pattern that also takes 3
DurationGroup_with_3 ==
    << <<"1">>, <<"2">>, <<"3">>, <<"4">>, <<"8">>, <<"1", "6">>, <<"3", "2">>,
       <<"6", "4">>, <<"1", "2", "8">>, <<>> >>

\* (?P<duration>(?:1|2|4|8|(?:16)|(?:32)|(?:64)|(?:128))?)
DurationGroup ==
    << <<"1">>, <<"2">>, <<"4">>, <<"8">>, <<"1", "6">>, <<"3", "2">>,
       <<"6", "4">>, <<"1", "2", "8">>, <<>> >>

\* (?P<dot>\.{0,255})
DialectDotGroup == Rep(<<".">>, 0, DOT_FIELD_MAX)

\* (?P<dot>\.?)
GateDotGroup == Rep(<<".">>, 0, GATE_DOT_MAX)

LongSharp == <<"-", "s", "h", "a", "r", "p">>
LongFlat == <<"-", "f", "l", "a", "t">>

\* english: (?P<accidental>(?:f{0,2}|s{0,2})|
\*          (?:(?:-sharp)?|(?:-flat)?|(?:-sharpsharp)|(?:-flatflat)))
EnglishAccidentalGroup ==
    Rep(<<"f">>, 0, 2) \o Rep(<<"s">>, 0, 2) \o Opt(LongSharp) \o Opt(LongFlat)
        \o << LongSharp \o Drop(LongSharp, 1) >> \o << LongFlat \o Drop(LongFlat, 1) >>

\* nederlands: (?P<accidental>(?:is){0,2}|(?:es){0,2})
NederlandsAccidentalGroup == Rep(<<"i", "s">>, 0, 2) \o Rep(<<"e", "s">>, 0, 2)

\* a variant of the accidental pattern that lets f and s follow each other
GateAccidentalGroup_mixed ==
    << <<"f", "s">>, <<"s", "f">> >>
        \o Rep(<<"f">>, 0, 2) \o Rep(<<"s">>, 0, 2)
        \o Rep(<<"i", "s">>, 0, 2) \o Rep(<<"e", "s">>, 0, 2)

\* lilypond_note.rs: (?P<accidental>(?:f{0,2}|s{0,2})|(?:(?:is){0,2}|(?:es){0,2}))
GateAccidentalGroup ==
    Rep(<<"f">>, 0, 2) \o Rep(<<"s">>, 0, 2)
        \o Rep(<<"i", "s">>, 0, 2) \o Rep(<<"e", "s">>, 0, 2)

english_NOTE_REGEX_STR ==
    <<NoteNameGroup, EnglishAccidentalGroup, OctaveGroup, DurationGroup, DialectDotGroup>>

\* a variant of the Dutch grammar whose octave field takes a fourth comma
nederlands_NOTE_REGEX_STR_four_commas ==
    <<NoteNameGroup, NederlandsAccidentalGroup, OctaveGroup_four_commas, DurationGroup,
      DialectDotGroup>>

nederlands_NOTE_REGEX_STR ==
    <<NoteNameGroup, NederlandsAccidentalGroup, OctaveGroup, DurationGroup, DialectDotGroup>>

\* a variant of the default dialect
NOTE_NAME_LANGUAGE_nederlands == "Nederlands"

\* the default dialect
NOTE_NAME_LANGUAGE == "English"

\* english::LANGUAGE_STR
english_LANGUAGE_STR == <<"e", "n", "g", "l", "i", "s", "h">>

\* nederlands::LANGUAGE_STR
nederlands_LANGUAGE_STR == <<"n", "e", "d", "e", "r", "l", "a", "n", "d", "s">>

\* languages::LANGUAGE_STR
LANGUAGE_STR ==
    CASE NOTE_NAME_LANGUAGE = "English"    -> english_LANGUAGE_STR
      [] NOTE_NAME_LANGUAGE = "Nederlands" -> nederlands_LANGUAGE_STR

\* languages::NOTE_REGEX_STR
NOTE_REGEX_STR ==
    CASE NOTE_NAME_LANGUAGE = "English"    -> english_NOTE_REGEX_STR
      [] NOTE_NAME_LANGUAGE = "Nederlands" -> nederlands_NOTE_REGEX_STR

\* the pattern LilyPondNote::new validates with
LILYPOND_NOTE_REGEX ==
    <<NoteNameGroup, GateAccidentalGroup, OctaveGroup, DurationGroup, GateDotGroup>>

---------------------------------------------------------------------------
(* The lazy_static cells.  A cell is uninitialised, running its            *)
(* initializer on one thread, or done with its value; the initializers of  *)
(* LANGUAGE_STR and NOTE_REGEX_STR dereference NOTE_NAME_LANGUAGE.         *)

CellNames == {"NOTE_NAME_LANGUAGE", "LANGUAGE_STR", "NOTE_REGEX_STR", "LILYPOND_NOTE_REGEX"}

Uninit == [state |-> "uninit"]
Running(t) == [state |-> "running", by |-> t]
Done(v) == [state |-> "done", v |-> v]

\* the statics an initializer dereferences
CellDeps(c) ==
    IF c \in {"LANGUAGE_STR", "NOTE_REGEX_STR"} THEN {"NOTE_NAME_LANGUAGE"} ELSE {}

\* the value an initializer returns, its dereferenced statics being done in cs
CellInit(c, cs) ==
    CASE c = "NOTE_NAME_LANGUAGE"  -> NOTE_NAME_LANGUAGE
      [] c = "LILYPOND_NOTE_REGEX" -> LILYPOND_NOTE_REGEX
      [] c = "LANGUAGE_STR" ->
            (CASE cs["NOTE_NAME_LANGUAGE"].v = "English"    -> english_LANGUAGE_STR
               [] cs["NOTE_NAME_LANGUAGE"].v = "Nederlands" -> nederlands_LANGUAGE_STR)
      [] c = "NOTE_REGEX_STR" ->
            (CASE cs["NOTE_NAME_LANGUAGE"].v = "English"    -> english_NOTE_REGEX_STR
               [] cs["NOTE_NAME_LANGUAGE"].v = "Nederlands" -> nederlands_NOTE_REGEX_STR)

\* the cells after one thread, alone, has dereferenced the statics in names
Forced(cs, names) ==
    LET needed == names \cup UNION {CellDeps(c) : c \in names}
        base == [c \in CellNames |->
                    IF c \in needed /\ CellDeps(c) = {} /\ cs[c].state # "done"
                    THEN Done(CellInit(c, cs)) ELSE cs[c]]
    IN  [c \in CellNames |->
            IF c \in needed /\ base[c].state # "done"
            THEN Done(CellInit(c, base)) ELSE base[c]]

\* an operation of a single-threaded session dereferences the statics in names
Deref(names) ==
    /\ cells' = Forced(cells, names)
    /\ inits' = [c \in CellNames |->
                    IF cells[c].state # "done" /\ Forced(cells, names)[c].state = "done"
                    THEN inits[c] + 1 ELSE inits[c]]
    /\ UNCHANGED calls

\* before the first dereference
CellsInit ==
    /\ cells = [c \in CellNames |-> Uninit]
    /\ inits = [c \in CellNames |-> 0]

---------------------------------------------------------------------------
(* Results *)

Ok(v) == [tag |-> "Ok", v |-> v]
Err(m) == [tag |-> "Err", msg |-> m]
Panic(m) == [tag |-> "Panic", msg |-> m]
None == [tag |-> "None"]

\* Result::unwrap
Unwrap(r) == IF r.tag = "Ok" THEN r ELSE Panic("unwrap on Err")

---------------------------------------------------------------------------
(* The note model: pitch.rs, rhythm.rs, note.rs *)

NoteName == {"A", "B", "C", "D", "E", "F", "G", "None"}
Octave == {"S0", "S1", "S2", "S3", "S4", "S5", "S6", "S7", "S8", "S9", "None"}
Accidental == {"None", "Sharp", "DoubleSharp", "Flat", "DoubleFlat"}
Length ==
    {"Whole", "Half", "Quarter", "Eighth", "Sixteenth", "ThirtySecond",
     "SixtyFourth", "OneTwentyEighth"}
DurationType == {"Note", "Rest"}

\* a variant of the default octave, one above the reference
Octave_default_S4 == "S4"

Octave_default == "S3"
Accidental_default == "None"
Length_default == "Quarter"
DurationType_default == "Note"
Dots_default == 0

Pitch_new(note_name) ==
    [note_name |-> note_name, octave |-> Octave_default, accidental |-> Accidental_default]

Rhythm_new ==
    [length |-> Length_default, dots |-> Dots_default, duration_type |-> DurationType_default]

Note_new(note_name) == [pitch |-> Pitch_new(note_name), rhythm |-> Rhythm_new]

\* every value of the struct Note with at most MaxDots dots
NoteValues ==
    [pitch : [note_name : NoteName, octave : Octave, accidental : Accidental],
     rhythm : [length : Length, dots : 0..MaxDots, duration_type : DurationType]]

\* #[repr(u16)] enum Length, Length::as_u16
Length_as_u16(length) ==
    CASE length = "Whole"           -> 1
      [] length = "Half"            -> 2
      [] length = "Quarter"         -> 4
      [] length = "Eighth"          -> 8
      [] length = "Sixteenth"       -> 16
      [] length = "ThirtySecond"    -> 32
      [] length = "SixtyFourth"     -> 64
      [] length = "OneTwentyEighth" -> 128

\* Length::as_u16 written in decimal (Display for Length)
Length_to_string(length) ==
    CASE length = "Whole"           -> <<"1">>
      [] length = "Half"            -> <<"2">>
      [] length = "Quarter"         -> <<"4">>
      [] length = "Eighth"          -> <<"8">>
      [] length = "Sixteenth"       -> <<"1", "6">>
      [] length = "ThirtySecond"    -> <<"3", "2">>
      [] length = "SixtyFourth"     -> <<"6", "4">>
      [] length = "OneTwentyEighth" -> <<"1", "2", "8">>

\* Display for Octave
Octave_to_string(octave) ==
    CASE octave = "S0"   -> <<",", ",", ",">>
      [] octave = "S1"   -> <<",", ",">>
      [] octave = "S2"   -> <<",">>
      [] octave = "S3"   -> <<>>
      [] octave = "S4"   -> <<"'">>
      [] octave = "S5"   -> <<"'", "'">>
      [] octave = "S6"   -> <<"'", "'", "'">>
      [] octave = "S7"   -> <<"'", "'", "'", "'">>
      [] octave = "S8"   -> <<"'", "'", "'", "'", "'">>
      [] octave = "S9"   -> <<"'", "'", "'", "'", "'", "'">>
      [] octave = "None" -> <<>>

\* Display for Dots: ".".repeat(dots)
Dots_to_string(dots) == Repeat(<<".">>, dots)

---------------------------------------------------------------------------
(* lilypond_note.rs: the gate and the captures *)

\* a variant of new whose error holds the rejected string
LilyPondNote_new_with_text(s) ==
    IF IsMatch(LILYPOND_NOTE_REGEX, s)
    THEN Ok([note |-> s])
    ELSE [tag |-> "Err", text |-> s]

\* Ok(LilyPondNote { note }) or Err(())
LilyPondNote_new(s) ==
    IF IsMatch(LILYPOND_NOTE_REGEX, s) THEN Ok([note |-> s]) ELSE [tag |-> "Err"]

LilyPondNote_get_note(l) == l.note

\* LILYPOND_NOTE_REGEX.replace(&self.note, "$capture"): the match spans the
\* whole string, so the result is the capture; a string that does not match
\* is returned unchanged
get_capture(l, capture) ==
    LET m == Match(LILYPOND_NOTE_REGEX, l.note)
    IN  IF m.ok THEN m.caps[GroupIndex(capture)] ELSE l.note

\* the match on octave_int that ends get_octave and octave_from_lilypond
OctaveOfInt(octave_int) ==
    CASE octave_int = 0 -> Ok("S0")
      [] octave_int = 1 -> Ok("S1")
      [] octave_int = 2 -> Ok("S2")
      [] octave_int = 3 -> Ok("S3")
      [] octave_int = 4 -> Ok("S4")
      [] octave_int = 5 -> Ok("S5")
      [] octave_int = 6 -> Ok("S6")
      [] octave_int = 7 -> Ok("S7")
      [] octave_int = 8 -> Ok("S8")
      [] octave_int = 9 -> Ok("S9")
      [] OTHER          -> Panic("Invalid number of octave transpositions.")

\* a variant of the arithmetic that lowers on ' and raises on ,
OctaveOfString_swapped(octave_string, overflow_checks) ==
    LET apostrophes == Count(octave_string, "'")
        commas == Count(octave_string, ",")
    IN  IF Contains(octave_string, ",") /\ Contains(octave_string, "'")
        THEN Panic("Mixed octave transpostion symbols , and '.")
        ELSE IF Contains(octave_string, "'")
        THEN OctaveOfInt(REFERENCE_OCTAVE - apostrophes)
        ELSE IF Contains(octave_string, ",")
        THEN OctaveOfInt(REFERENCE_OCTAVE + commas)
        ELSE OctaveOfInt(REFERENCE_OCTAVE)

\* the arithmetic on octave_int: usize.  octave_int += count cannot overflow
\* for a string that fits in memory.  octave_int -= count with count > 3
\* underflows: with overflow checks (the dev profile) the subtraction
\* panics, without them (the release profile) it wraps to
\* 2^64 - (count - 3), which is none of 0..9, and the match panics
OctaveOfString(octave_string, overflow_checks) ==
    LET apostrophes == Count(octave_string, "'")
        commas == Count(octave_string, ",")
    IN  IF Contains(octave_string, ",") /\ Contains(octave_string, "'")
        THEN Panic("Mixed octave transpostion symbols , and '.")
        ELSE IF Contains(octave_string, "'")
        THEN OctaveOfInt(REFERENCE_OCTAVE + apostrophes)
        ELSE IF Contains(octave_string, ",")
        THEN IF commas <= REFERENCE_OCTAVE
             THEN OctaveOfInt(REFERENCE_OCTAVE - commas)
             ELSE IF overflow_checks
             THEN Panic("attempt to subtract with overflow")
             ELSE Panic("Invalid number of octave transpositions.")
        ELSE OctaveOfInt(REFERENCE_OCTAVE)

\* a variant of the match that takes "16" for "1" and "128" for "1"
LengthOfString_first_digit(duration) ==
    CASE duration = <<>>     -> Ok("Quarter")
      [] duration[1] = "1"   -> Ok("Whole")
      [] duration[1] = "2"   -> Ok("Half")
      [] duration[1] = "4"   -> Ok("Quarter")
      [] duration[1] = "8"   -> Ok("Eighth")
      [] duration[1] = "3"   -> Ok("ThirtySecond")
      [] duration[1] = "6"   -> Ok("SixtyFourth")
      [] OTHER               -> Panic("Invalid duration.")

\* the match on the duration capture
LengthOfString(duration) ==
    CASE duration = <<"1">>           -> Ok("Whole")
      [] duration = <<"2">>           -> Ok("Half")
      [] duration = <<"4">>           -> Ok("Quarter")
      [] duration = <<"8">>           -> Ok("Eighth")
      [] duration = <<"1", "6">>      -> Ok("Sixteenth")
      [] duration = <<"3", "2">>      -> Ok("ThirtySecond")
      [] duration = <<"6", "4">>      -> Ok("SixtyFourth")
      [] duration = <<"1", "2", "8">> -> Ok("OneTwentyEighth")
      [] duration = <<>>              -> Ok(Length_default)
      [] OTHER                        -> Panic(<<"Invalid duration", duration>>)

LilyPondNote_get_duration_type(l) ==
    IF get_capture(l, "note_name") = <<"r">> THEN "Rest" ELSE "Note"

LetterOfString(name) ==
    CASE name = <<"a">> -> Ok("A")
      [] name = <<"b">> -> Ok("B")
      [] name = <<"c">> -> Ok("C")
      [] name = <<"d">> -> Ok("D")
      [] name = <<"e">> -> Ok("E")
      [] name = <<"f">> -> Ok("F")
      [] name = <<"g">> -> Ok("G")
      [] OTHER          -> Err(<<"Invalid note name", name>>)

\* Err(e) of a helper turned into the panic!(e) of the caller
AsPanic(r) == IF r.tag = "Err" THEN Panic(r.msg) ELSE r

LilyPondNote_get_note_name(l) ==
    IF LilyPondNote_get_duration_type(l) = "Rest"
    THEN Ok("None")
    ELSE AsPanic(LetterOfString(get_capture(l, "note_name")))

LilyPondNote_get_accidental(l) ==
    IF LilyPondNote_get_duration_type(l) = "Rest"
    THEN Ok("None")
    ELSE LET a == get_capture(l, "accidental")
         IN  CASE a = <<>>                   -> Ok("None")
               [] a = <<"s">>                -> Ok("Sharp")
               [] a = <<"i", "s">>           -> Ok("Sharp")
               [] a = <<"s", "s">>           -> Ok("DoubleSharp")
               [] a = <<"i", "s", "i", "s">> -> Ok("DoubleSharp")
               [] a = <<"f">>                -> Ok("Flat")
               [] a = <<"e", "s">>           -> Ok("Flat")
               [] a = <<"f", "f">>           -> Ok("DoubleFlat")
               [] a = <<"e", "s", "e", "s">> -> Ok("DoubleFlat")
               [] OTHER                      -> Panic(<<"Invalid accidental", a>>)

\* a variant of get_octave that reads the octave marks of a rest
LilyPondNote_get_octave_of_rest(l, overflow_checks) ==
    OctaveOfString(get_capture(l, "octave"), overflow_checks)

LilyPondNote_get_octave(l, overflow_checks) ==
    IF LilyPondNote_get_duration_type(l) = "Rest"
    THEN Ok("None")
    ELSE OctaveOfString(get_capture(l, "octave"), overflow_checks)

LilyPondNote_get_length(l) == LengthOfString(get_capture(l, "duration"))

LilyPondNote_get_dot(l) == get_capture(l, "dot") = <<".">>

\* the first panic among the fields, in the order the code evaluates them
\* a variant of the field order that reports the last failure
FirstFailure_last(results) ==
    LET bad == {i \in 1..Len(results) : results[i].tag # "Ok"}
    IN  IF bad = {} THEN None
        ELSE results[CHOOSE i \in bad : \A j \in bad : i >= j]

FirstFailure(results) ==
    LET bad == {i \in 1..Len(results) : results[i].tag # "Ok"}
    IN  IF bad = {} THEN None
        ELSE results[CHOOSE i \in bad : \A j \in bad : i <= j]

\* the boolean dotted stored in the dots field of the rhythm
DotsOfBool(dotted) == IF dotted THEN 1 ELSE 0

LilyPondNote_to_note(l, overflow_checks) ==
    LET note_name == LilyPondNote_get_note_name(l)
        note_accidental == LilyPondNote_get_accidental(l)
        note_octave == LilyPondNote_get_octave(l, overflow_checks)
        note_length == LilyPondNote_get_length(l)
        note_duration_type == LilyPondNote_get_duration_type(l)
        note_dot == LilyPondNote_get_dot(l)
        failure == FirstFailure(<<note_name, note_accidental, note_octave, note_length>>)
    IN  IF failure # None
        THEN failure
        ELSE Ok([pitch |-> [Pitch_new(note_name.v) EXCEPT
                              !.accidental = note_accidental.v,
                              !.octave = note_octave.v],
                 rhythm |-> [Rhythm_new EXCEPT
                              !.duration_type = note_duration_type,
                              !.length = note_length.v,
                              !.dots = DotsOfBool(note_dot)]])

---------------------------------------------------------------------------
(* note.rs: the private decoders behind impl From<&LilyPondNote> for Note *)

Note_get_duration_type(l) ==
    IF get_capture(l, "note_name") = <<"r">> THEN "Rest" ELSE "Note"

Note_get_note_name(l) ==
    IF Note_get_duration_type(l) = "Rest"
    THEN Ok("None")
    ELSE AsPanic(LetterOfString(get_capture(l, "note_name")))

Note_get_accidental(l) ==
    IF Note_get_duration_type(l) = "Rest"
    THEN Ok("None")
    ELSE LET a == get_capture(l, "accidental")
         IN  CASE a = <<>>                   -> Ok("None")
               [] a = <<"s">>                -> Ok("Sharp")
               [] a = <<"i", "s">>           -> Ok("Sharp")
               [] a = <<"s", "s">>           -> Ok("DoubleSharp")
               [] a = <<"i", "s", "i", "s">> -> Ok("DoubleSharp")
               [] a = <<"f">>                -> Ok("Flat")
               [] a = <<"e", "s">>           -> Ok("Flat")
               [] a = <<"f", "f">>           -> Ok("DoubleFlat")
               [] a = <<"e", "s", "e", "s">> -> Ok("DoubleFlat")
               [] OTHER                      -> Panic(<<"Invalid accidental", a>>)

Note_get_octave(l, overflow_checks) ==
    IF Note_get_duration_type(l) = "Rest"
    THEN Ok("None")
    ELSE OctaveOfString(get_capture(l, "octave"), overflow_checks)

Note_get_length(l) == LengthOfString(get_capture(l, "duration"))

\* a variant of Note::get_dot that reads no dot
Note_get_dot_never(l) == FALSE

Note_get_dot(l) == get_capture(l, "dot") = <<".">>

Note_from(l, overflow_checks) ==
    LET note_name == Note_get_note_name(l)
        note_accidental == Note_get_accidental(l)
        note_octave == Note_get_octave(l, overflow_checks)
        note_length == Note_get_length(l)
        note_duration_type == Note_get_duration_type(l)
        note_dot == Note_get_dot(l)
        failure == FirstFailure(<<note_name, note_accidental, note_octave, note_length>>)
    IN  IF failure # None
        THEN failure
        ELSE Ok([pitch |-> [Pitch_new(note_name.v) EXCEPT
                              !.accidental = note_accidental.v,
                              !.octave = note_octave.v],
                 rhythm |-> [Rhythm_new EXCEPT
                              !.duration_type = note_duration_type,
                              !.length = note_length.v,
                              !.dots = DotsOfBool(note_dot)]])

---------------------------------------------------------------------------
(* note.rs: the encoder Note::to_lilypond_note *)

LetterToString(note_name) ==
    CASE note_name = "A"    -> <<"a">>
      [] note_name = "B"    -> <<"b">>
      [] note_name = "C"    -> <<"c">>
      [] note_name = "D"    -> <<"d">>
      [] note_name = "E"    -> <<"e">>
      [] note_name = "F"    -> <<"f">>
      [] note_name = "G"    -> <<"g">>
      [] note_name = "None" -> <<"r">>

get_lilypond_note_name(n) ==
    IF n.rhythm.duration_type = "Rest"
    THEN <<"r">>
    ELSE LetterToString(n.pitch.note_name)

get_lilypond_accidental(n) ==
    IF n.rhythm.duration_type = "Rest"
    THEN <<>>
    ELSE CASE n.pitch.accidental = "Flat"        -> <<"f">>
           [] n.pitch.accidental = "DoubleFlat"  -> <<"f", "f">>
           [] n.pitch.accidental = "Sharp"       -> <<"s">>
           [] n.pitch.accidental = "DoubleSharp" -> <<"s", "s">>
           [] n.pitch.accidental = "None"        -> <<>>

get_lilypond_octave(n) ==
    IF n.rhythm.duration_type = "Rest"
    THEN <<>>
    ELSE Octave_to_string(n.pitch.octave)

get_lilypond_duration(n) == Length_to_string(n.rhythm.length)

\* match self.rhythm.dotted { true => ".", false => "" }
get_lilypond_dot(n) ==
    IF n.rhythm.dots = DotsOfBool(TRUE) THEN <<".">> ELSE <<>>

\* the string handed to LilyPondNote::new
Note_format(n) ==
    get_lilypond_note_name(n) \o get_lilypond_accidental(n) \o get_lilypond_octave(n)
        \o get_lilypond_duration(n) \o get_lilypond_dot(n)

Note_to_lilypond_note(n) == Unwrap(LilyPondNote_new(Note_format(n)))

LilyPondNote_from_note(n) == Note_to_lilypond_note(n)

---------------------------------------------------------------------------
(* languages/common.rs *)

duration_type_from_lilypond(l) ==
    IF get_capture(l, "note_name") = <<"r">> THEN "Rest" ELSE "Note"

octave_from_lilypond(l, overflow_checks) ==
    IF duration_type_from_lilypond(l) = "Rest"
    THEN Ok("None")
    ELSE OctaveOfString(get_capture(l, "octave"), overflow_checks)

length_from_lilypond(l) == LengthOfString(get_capture(l, "duration"))

dotted_from_lilypond(l) == get_capture(l, "dot") = <<".">>

rhythm_from_lilypond(l) ==
    LET length == length_from_lilypond(l)
    IN  IF length.tag # "Ok"
        THEN length
        ELSE Ok([duration_type |-> duration_type_from_lilypond(l),
                 length |-> length.v,
                 dots |-> DotsOfBool(dotted_from_lilypond(l))])

---------------------------------------------------------------------------
(* languages/english.rs *)

english_lilypond_from_note_name(n) ==
    IF n.rhythm.duration_type = "Rest"
    THEN <<"r">>
    ELSE LetterToString(n.pitch.note_name)

\* a variant of the English accidental table that spells sharps as flats
english_lilypond_from_accidental_swapped(n) ==
    CASE n.pitch.accidental = "None"        -> <<>>
      [] n.pitch.accidental = "Flat"        -> <<"s">>
      [] n.pitch.accidental = "DoubleFlat"  -> <<"s", "s">>
      [] n.pitch.accidental = "Sharp"       -> <<"f">>
      [] n.pitch.accidental = "DoubleSharp" -> <<"f", "f">>

english_lilypond_from_accidental(n) ==
    CASE n.pitch.accidental = "None"        -> <<>>
      [] n.pitch.accidental = "Flat"        -> <<"f">>
      [] n.pitch.accidental = "DoubleFlat"  -> <<"f", "f">>
      [] n.pitch.accidental = "Sharp"       -> <<"s">>
      [] n.pitch.accidental = "DoubleSharp" -> <<"s", "s">>

english_lilypond_from_note(n) ==
    english_lilypond_from_note_name(n) \o english_lilypond_from_accidental(n)
        \o Octave_to_string(n.pitch.octave) \o Length_to_string(n.rhythm.length)
        \o Dots_to_string(n.rhythm.dots)

english_note_name_from_lilypond(l) ==
    IF duration_type_from_lilypond(l) = "Rest"
    THEN Ok("None")
    ELSE LetterOfString(get_capture(l, "note_name"))

\* a variant of accidental_from_lilypond that reads the accidental of a rest
english_accidental_from_lilypond_of_rest(l) ==
    LET a == get_capture(l, "accidental")
    IN  CASE a = <<>>         -> Ok("None")
          [] a = <<"s">>      -> Ok("Sharp")
          [] a = <<"s", "s">> -> Ok("DoubleSharp")
          [] a = <<"f">>      -> Ok("Flat")
          [] a = <<"f", "f">> -> Ok("DoubleFlat")
          [] OTHER            -> Err(<<"Invalid accidental", a>>)

english_accidental_from_lilypond(l) ==
    IF duration_type_from_lilypond(l) = "Rest"
    THEN Ok("None")
    ELSE LET a == get_capture(l, "accidental")
         IN  CASE a = <<>>         -> Ok("None")
               [] a = <<"s">>      -> Ok("Sharp")
               [] a = <<"s", "s">> -> Ok("DoubleSharp")
               [] a = <<"f">>      -> Ok("Flat")
               [] a = <<"f", "f">> -> Ok("DoubleFlat")
               [] OTHER            -> Err(<<"Invalid accidental", a>>)

\* each field is evaluated in turn; ? returns the first Err, a panic unwinds
english_note_from_lilypond(l, overflow_checks) ==
    LET note_name == english_note_name_from_lilypond(l)
        accidental == english_accidental_from_lilypond(l)
        octave == octave_from_lilypond(l, overflow_checks)
        rhythm == rhythm_from_lilypond(l)
        failure == FirstFailure(<<note_name, accidental, octave, rhythm>>)
    IN  IF failure # None
        THEN failure
        ELSE Ok([pitch |-> [note_name |-> note_name.v,
                            accidental |-> accidental.v,
                            octave |-> octave.v],
                 rhythm |-> rhythm.v])

---------------------------------------------------------------------------
(* languages/nederlands.rs *)

nederlands_lilypond_from_note_name(n) ==
    IF n.rhythm.duration_type = "Rest"
    THEN <<"r">>
    ELSE LetterToString(n.pitch.note_name)

nederlands_lilypond_from_accidental(n) ==
    CASE n.pitch.accidental = "None"        -> <<>>
      [] n.pitch.accidental = "Flat"        -> <<"e", "s">>
      [] n.pitch.accidental = "DoubleFlat"  -> <<"e", "s", "e", "s">>
      [] n.pitch.accidental = "Sharp"       -> <<"i", "s">>
      [] n.pitch.accidental = "DoubleSharp" -> <<"i", "s", "i", "s">>

nederlands_lilypond_from_note(n) ==
    nederlands_lilypond_from_note_name(n) \o nederlands_lilypond_from_accidental(n)
        \o Octave_to_string(n.pitch.octave) \o Length_to_string(n.rhythm.length)
        \o Dots_to_string(n.rhythm.dots)

nederlands_note_name_from_lilypond(l) ==
    IF duration_type_from_lilypond(l) = "Rest"
    THEN Ok("None")
    ELSE LetterOfString(get_capture(l, "note_name"))

nederlands_accidental_from_lilypond(l) ==
    IF duration_type_from_lilypond(l) = "Rest"
    THEN Ok("None")
    ELSE LET a == get_capture(l, "accidental")
         IN  CASE a = <<>>                   -> Ok("None")
               [] a = <<"i", "s">>           -> Ok("Sharp")
               [] a = <<"i", "s", "i", "s">> -> Ok("DoubleSharp")
               [] a = <<"e", "s">>           -> Ok("Flat")
               [] a = <<"e", "s", "e", "s">> -> Ok("DoubleFlat")
               [] OTHER                      -> Err(<<"Invalid accidental", a>>)

nederlands_note_from_lilypond(l, overflow_checks) ==
    LET note_name == nederlands_note_name_from_lilypond(l)
        accidental == nederlands_accidental_from_lilypond(l)
        octave == octave_from_lilypond(l, overflow_checks)
        rhythm == rhythm_from_lilypond(l)
        failure == FirstFailure(<<note_name, accidental, octave, rhythm>>)
    IN  IF failure # None
        THEN failure
        ELSE Ok([pitch |-> [note_name |-> note_name.v,
                            accidental |-> accidental.v,
                            octave |-> octave.v],
                 rhythm |-> rhythm.v])

---------------------------------------------------------------------------
(* languages/mod.rs: the dispatch on NOTE_NAME_LANGUAGE *)

lilypond_from_note(n) ==
    CASE NOTE_NAME_LANGUAGE = "English"    -> english_lilypond_from_note(n)
      [] NOTE_NAME_LANGUAGE = "Nederlands" -> nederlands_lilypond_from_note(n)

note_from_lilypond(l, overflow_checks) ==
    CASE NOTE_NAME_LANGUAGE = "English"    -> english_note_from_lilypond(l, overflow_checks)
      [] NOTE_NAME_LANGUAGE = "Nederlands" -> nederlands_note_from_lilypond(l, overflow_checks)

---------------------------------------------------------------------------
(* The strings and notes a session is started with *)

InputHeads ==
    {<<"a">>, <<"b">>, <<"c">>, <<"d">>, <<"e">>, <<"f">>, <<"g">>, <<"r">>, <<"h">>}

InputAccidentals ==
    {<<>>, <<"f">>, <<"f", "f">>, <<"s">>, <<"s", "s">>,
     <<"i", "s">>, <<"i", "s", "i", "s">>, <<"e", "s">>, <<"e", "s", "e", "s">>,
     <<"f", "s">>, <<"s", "f">>, <<"i", "s", "e", "s">>, <<"e", "s", "i", "s">>,
     LongSharp, LongFlat, LongSharp \o Drop(LongSharp, 1), LongFlat \o Drop(LongFlat, 1)}

InputOctaves ==
    {Repeat(<<",">>, k) : k \in 0..MaxCommas}
        \cup {Repeat(<<"'">>, k) : k \in 1..MaxApostrophes}
        \cup {<<",", "'">>, <<"'", ",">>}

InputDurations ==
    {<<>>, <<"1">>, <<"2">>, <<"4">>, <<"8">>, <<"1", "6">>, <<"3", "2">>,
     <<"6", "4">>, <<"1", "2", "8">>, <<"3">>, <<"1", "2">>, <<"1", "6", "2">>,
     <<"1", "2", "8", "1">>}

InputDots == {Repeat(<<".">>, k) : k \in 0..MaxDots} \cup {<<".", "1">>}

Compose(heads, accidentals, octaves, durations, dots) ==
    {h \o a \o o \o d \o t :
        h \in heads, a \in accidentals, o \in octaves, d \in durations, t \in dots}

\* every head with every accidental and every dot part; every octave part
\* on a note, a rest and a rejected head; every duration with every dot part
Inputs ==
    Compose(InputHeads, InputAccidentals, {<<>>}, {<<>>, <<"8">>}, InputDots)
        \cup Compose({<<"d">>, <<"f">>, <<"r">>, <<"h">>}, {<<>>, <<"s">>, <<"e", "s">>},
                     InputOctaves, {<<>>, <<"1", "6">>}, {<<>>, <<".">>})
        \cup Compose({<<"c">>, <<"r">>}, {<<>>}, {<<>>, <<",", ",">>},
                     InputDurations, InputDots)
        \cup {<<>>, <<"a", "s", "d", "f">>, <<"c", ",", ",", ",", ",">>}
        \cup {<<"b", "3">>, <<"g", "1", "2">>, <<"d", "1", "2", "8", "1">>,
              <<"g", "s">> \o Repeat(<<"'">>, 6) \o <<"1", "6", ".", "1">>}

\* every pitch, sounding and rest; every rhythm on a few pitches
InputNotes ==
    [pitch : [note_name : NoteName, octave : Octave, accidental : Accidental],
     rhythm : [length : {"Quarter"}, dots : {0}, duration_type : DurationType]]
        \cup [pitch : [note_name : {"A", "None"}, octave : {"S3", "None"},
                       accidental : {"None", "Sharp"}],
              rhythm : [length : Length, dots : 0..MaxDots,
                        duration_type : DurationType]]

DecodeOps == {"to_note", "from", "note_from_lilypond"}
EncodeOps == {"to_lilypond_note", "lilypond_from_note"}

Last(t) == t[Len(t)]

---------------------------------------------------------------------------
(* The session *)

Init ==
    /\ text = <<>>
    /\ ly = None
    /\ note = None
    /\ src = [kind |-> "none"]
    /\ trail = <<>>
    /\ CellsInit
    /\ calls = <<>>

\* LilyPondNote::new(t) on a string of the caller
New(t) ==
    /\ text' = t
    /\ ly' = LilyPondNote_new(t)
    /\ src' = [kind |-> "text", v |-> t]
    /\ trail' = <<"new">>
    /\ UNCHANGED note
    /\ Deref({"LILYPOND_NOTE_REGEX"})

\* a Note built from its public fields
Build(n) ==
    /\ note' = Ok(n)
    /\ src' = [kind |-> "note", v |-> n]
    /\ trail' = <<"build">>
    /\ UNCHANGED <<text, ly>>
    /\ Deref({})

\* Note::new(note_name)
NoteNew(note_name) ==
    /\ note' = Ok(Note_new(note_name))
    /\ src' = [kind |-> "note", v |-> Note_new(note_name), arg |-> note_name]
    /\ trail' = <<"Note::new">>
    /\ UNCHANGED <<text, ly>>
    /\ Deref({})

\* a session decodes once
CanDecode ==
    /\ trail # <<>>
    /\ Last(trail) \in {"new", "to_lilypond_note"}
    /\ \A i \in 1..Len(trail) : trail[i] \notin DecodeOps
    /\ ly.tag = "Ok"

\* ly.to_note()
ToNote ==
    /\ CanDecode
    /\ \E overflow_checks \in BOOLEAN : note' = LilyPondNote_to_note(ly.v, overflow_checks)
    /\ trail' = Append(trail, "to_note")
    /\ UNCHANGED <<text, ly, src>>
    /\ Deref({"LILYPOND_NOTE_REGEX"})

\* Note::from(&ly)
From ==
    /\ CanDecode
    /\ \E overflow_checks \in BOOLEAN : note' = Note_from(ly.v, overflow_checks)
    /\ trail' = Append(trail, "from")
    /\ UNCHANGED <<text, ly, src>>
    /\ Deref({"LILYPOND_NOTE_REGEX"})

\* lilypond::note_from_lilypond(&ly)
NoteFromLilypond ==
    /\ CanDecode
    /\ \E overflow_checks \in BOOLEAN : note' = note_from_lilypond(ly.v, overflow_checks)
    /\ trail' = Append(trail, "note_from_lilypond")
    /\ UNCHANGED <<text, ly, src>>
    /\ Deref({"NOTE_NAME_LANGUAGE", "LILYPOND_NOTE_REGEX"})

\* a session encodes once
CanEncode ==
    /\ trail # <<>>
    /\ Last(trail) \in {"build", "Note::new"} \cup DecodeOps
    /\ \A i \in 1..Len(trail) : trail[i] \notin EncodeOps
    /\ note.tag = "Ok"

\* note.to_lilypond_note(); the field it reads as dotted holds a boolean
ToLilypondNote ==
    /\ CanEncode
    /\ note.v.rhythm.dots \in {DotsOfBool(FALSE), DotsOfBool(TRUE)}
    /\ text' = Note_format(note.v)
    /\ ly' = Note_to_lilypond_note(note.v)
    /\ trail' = Append(trail, "to_lilypond_note")
    /\ UNCHANGED <<note, src>>
    /\ Deref({"LILYPOND_NOTE_REGEX"})

\* lilypond::lilypond_from_note(&note), a String
LilypondFromNote ==
    /\ CanEncode
    /\ text' = lilypond_from_note(note.v)
    /\ ly' = None
    /\ trail' = Append(trail, "lilypond_from_note")
    /\ UNCHANGED <<note, src>>
    /\ Deref({"NOTE_NAME_LANGUAGE"})

\* LilyPondNote::new on the String of lilypond_from_note
Validate ==
    /\ trail # <<>>
    /\ Last(trail) = "lilypond_from_note"
    /\ ly' = LilyPondNote_new(text)
    /\ trail' = Append(trail, "to_lilypond_note")
    /\ UNCHANGED <<text, note, src>>
    /\ Deref({"LILYPOND_NOTE_REGEX"})

Next ==
    \/ trail = <<>> /\ \E t \in Inputs : New(t)
    \/ trail = <<>> /\ \E n \in InputNotes : Build(n)
    \/ trail = <<>> /\ \E note_name \in NoteName : NoteNew(note_name)
    \/ ToNote
    \/ From
    \/ NoteFromLilypond
    \/ ToLilypondNote
    \/ LilypondFromNote
    \/ Validate

Spec == Init /\ [][Next]_vars

---------------------------------------------------------------------------
(* The octave decoders on their own: a LilyPondNote whose field holds any  *)
(* string, as code inside the crate can build it, handed to one decoder.   *)

DecoderInputs ==
    Compose({<<"c">>, <<"d">>, <<"r">>}, {<<>>, <<"i", "s">>}, InputOctaves,
            {<<>>, <<"8">>}, {<<>>})

OctaveOps == {"octave_from_lilypond", "LilyPondNote::get_octave", "Note::get_octave"}

DecoderInit ==
    /\ text \in DecoderInputs
    /\ ly = Ok([note |-> text])
    /\ note = None
    /\ src = [kind |-> "field", v |-> text]
    /\ trail = <<>>
    /\ CellsInit
    /\ calls = <<>>

OctaveFromLilypond ==
    /\ trail = <<>>
    /\ \E overflow_checks \in BOOLEAN :
            note' = octave_from_lilypond(ly.v, overflow_checks)
    /\ trail' = <<"octave_from_lilypond">>
    /\ UNCHANGED <<text, ly, src>>
    /\ Deref({"LILYPOND_NOTE_REGEX"})

LilyPondNoteGetOctave ==
    /\ trail = <<>>
    /\ \E overflow_checks \in BOOLEAN :
            note' = LilyPondNote_get_octave(ly.v, overflow_checks)
    /\ trail' = <<"LilyPondNote::get_octave">>
    /\ UNCHANGED <<text, ly, src>>
    /\ Deref({"LILYPOND_NOTE_REGEX"})

NoteGetOctave ==
    /\ trail = <<>>
    /\ \E overflow_checks \in BOOLEAN :
            note' = Note_get_octave(ly.v, overflow_checks)
    /\ trail' = <<"Note::get_octave">>
    /\ UNCHANGED <<text, ly, src>>
    /\ Deref({"LILYPOND_NOTE_REGEX"})

\* lilypond::note_from_lilypond on the same LilyPondNote
NoteFromLilypondOfField ==
    /\ trail = <<>>
    /\ \E overflow_checks \in BOOLEAN :
            note' = note_from_lilypond(ly.v, overflow_checks)
    /\ trail' = <<"note_from_lilypond">>
    /\ UNCHANGED <<text, ly, src>>
    /\ Deref({"NOTE_NAME_LANGUAGE", "LILYPOND_NOTE_REGEX"})

DecoderNext ==
    \/ OctaveFromLilypond
    \/ LilyPondNoteGetOctave
    \/ NoteGetOctave
    \/ NoteFromLilypondOfField

SpecDecoder == DecoderInit /\ [][DecoderNext]_vars

---------------------------------------------------------------------------
(* The accidental tables of the two dialects on their own: a letter and an *)
(* accidental are spelled by the encoders of one dialect, the spelling is  *)
(* validated, and its accidental is decoded by the same dialect.           *)

TablesInit ==
    /\ \E dialect \in {"English", "Nederlands"}, note_name \in NoteName \ {"None"},
          accidental \in Accidental :
            src = [kind |-> "table", dialect |-> dialect,
                   v |-> [Note_new(note_name) EXCEPT !.pitch.accidental = accidental]]
    /\ text = <<>>
    /\ ly = None
    /\ note = None
    /\ trail = <<>>
    /\ CellsInit
    /\ calls = <<>>

\* lilypond_from_note_name and lilypond_from_accidental of the dialect
Spell ==
    /\ trail = <<>>
    /\ text' = CASE src.dialect = "English" ->
                        english_lilypond_from_note_name(src.v)
                            \o english_lilypond_from_accidental(src.v)
                 [] src.dialect = "Nederlands" ->
                        nederlands_lilypond_from_note_name(src.v)
                            \o nederlands_lilypond_from_accidental(src.v)
    /\ trail' = <<"spell">>
    /\ UNCHANGED <<ly, note, src>>
    /\ Deref({})

\* LilyPondNote::new on the spelling
Gate ==
    /\ trail = <<"spell">>
    /\ ly' = LilyPondNote_new(text)
    /\ trail' = Append(trail, "new")
    /\ UNCHANGED <<text, note, src>>
    /\ Deref({"LILYPOND_NOTE_REGEX"})

\* accidental_from_lilypond of the dialect
DecodeAccidental ==
    /\ trail = <<"spell", "new">>
    /\ ly.tag = "Ok"
    /\ note' = CASE src.dialect = "English"    -> english_accidental_from_lilypond(ly.v)
                 [] src.dialect = "Nederlands" -> nederlands_accidental_from_lilypond(ly.v)
    /\ trail' = Append(trail, "accidental_from_lilypond")
    /\ UNCHANGED <<text, ly, src>>
    /\ Deref({"LILYPOND_NOTE_REGEX"})

TablesNext ==
    \/ Spell
    \/ Gate
    \/ DecodeAccidental

SpecTables == TablesInit /\ [][TablesNext]_vars

---------------------------------------------------------------------------
(* The English decoders on their own: a LilyPondNote whose field holds a   *)
(* string of the English grammar, in every accidental spelling of it.      *)

EnglishAccidentals ==
    {<<>>, <<"f">>, <<"f", "f">>, <<"s">>, <<"s", "s">>,
     LongSharp, LongFlat, LongSharp \o Drop(LongSharp, 1), LongFlat \o Drop(LongFlat, 1)}

EnglishInputs ==
    Compose(InputHeads \ {<<"h">>}, EnglishAccidentals, {<<>>, <<"'">>, <<",">>},
            {<<>>, <<"8">>}, {<<>>, <<".">>})

EnglishOps == {"english::accidental_from_lilypond", "english::note_from_lilypond"}

EnglishInit ==
    /\ text \in EnglishInputs
    /\ ly = Ok([note |-> text])
    /\ note = None
    /\ src = [kind |-> "field", v |-> text]
    /\ trail = <<>>
    /\ CellsInit
    /\ calls = <<>>

EnglishAccidentalFromLilypond ==
    /\ trail = <<>>
    /\ note' = english_accidental_from_lilypond(ly.v)
    /\ trail' = <<"english::accidental_from_lilypond">>
    /\ UNCHANGED <<text, ly, src>>
    /\ Deref({"LILYPOND_NOTE_REGEX"})

EnglishNoteFromLilypond ==
    /\ trail = <<>>
    /\ \E overflow_checks \in BOOLEAN :
            note' = english_note_from_lilypond(ly.v, overflow_checks)
    /\ trail' = <<"english::note_from_lilypond">>
    /\ UNCHANGED <<text, ly, src>>
    /\ Deref({"LILYPOND_NOTE_REGEX"})

EnglishNext ==
    \/ EnglishAccidentalFromLilypond
    \/ EnglishNoteFromLilypond

SpecEnglish == EnglishInit /\ [][EnglishNext]_vars

---------------------------------------------------------------------------
(* midi/midi_note.rs and the conversion of pitch.rs: MidiNote holds an     *)
(* i16; the sums below stay within -2..133 and the quotients are taken of  *)
(* non-negative values, so neither the width nor the rounding of i16       *)
(* arithmetic is reached.                                                  *)

\* MIDI integers 0..MaxMidi are handed to MidiNote::new
MaxMidi == 140
\* and the negative integers down to -MaxNegative
MaxNegative == 3

RECURSIVE DisplayNat(_)
\* the decimal digits format! writes for a non-negative integer
DisplayNat(n) ==
    IF n < 10
    THEN << <<"0", "1", "2", "3", "4", "5", "6", "7", "8", "9">>[n + 1] >>
    ELSE DisplayNat(n \div 10) \o DisplayNat(n % 10)

\* format!("{}", n) of an integer
Display(n) == IF n < 0 THEN <<"-">> \o DisplayNat(0 - n) ELSE DisplayNat(n)

MidiNote_new(n) ==
    IF n < 0
    THEN Err(<<"Invalid MIDI integer", Display(n)>>)
    ELSE Ok([note |-> n])

MidiNote_get_note(m) == m.note

MidiNote_default == [note |-> 60]

\* a variant of the conversion that counts the octaves from S0 = 0
MidiNote_try_from_S0_is_zero(pitch) ==
    LET octave == CASE pitch.octave = "S0" -> 0
                    [] pitch.octave = "S1" -> 12
                    [] pitch.octave = "S2" -> 24
                    [] pitch.octave = "S3" -> 36
                    [] pitch.octave = "S4" -> 48
                    [] pitch.octave = "S5" -> 60
                    [] pitch.octave = "S6" -> 72
                    [] pitch.octave = "S7" -> 84
                    [] pitch.octave = "S8" -> 96
                    [] pitch.octave = "S9" -> 108
                    [] pitch.octave = "None" -> 0
        name == CASE pitch.note_name = "C" -> 0
                  [] pitch.note_name = "D" -> 2
                  [] pitch.note_name = "E" -> 4
                  [] pitch.note_name = "F" -> 5
                  [] pitch.note_name = "G" -> 7
                  [] pitch.note_name = "A" -> 9
                  [] pitch.note_name = "B" -> 11
                  [] pitch.note_name = "None" -> 0
        accidental == CASE pitch.accidental = "None" -> 0
                        [] pitch.accidental = "Sharp" -> 1
                        [] pitch.accidental = "DoubleSharp" -> 2
                        [] pitch.accidental = "Flat" -> 0 - 1
                        [] pitch.accidental = "DoubleFlat" -> 0 - 2
    IN  MidiNote_new(octave + name + accidental)

\* impl TryFrom<&Pitch> for MidiNote
MidiNote_try_from(pitch) ==
    LET octave == CASE pitch.octave = "S0" -> 12
                    [] pitch.octave = "S1" -> 24
                    [] pitch.octave = "S2" -> 36
                    [] pitch.octave = "S3" -> 48
                    [] pitch.octave = "S4" -> 60
                    [] pitch.octave = "S5" -> 72
                    [] pitch.octave = "S6" -> 84
                    [] pitch.octave = "S7" -> 96
                    [] pitch.octave = "S8" -> 108
                    [] pitch.octave = "S9" -> 120
                    [] pitch.octave = "None" -> 0
        name == CASE pitch.note_name = "C" -> 0
                  [] pitch.note_name = "D" -> 2
                  [] pitch.note_name = "E" -> 4
                  [] pitch.note_name = "F" -> 5
                  [] pitch.note_name = "G" -> 7
                  [] pitch.note_name = "A" -> 9
                  [] pitch.note_name = "B" -> 11
                  [] pitch.note_name = "None" -> 0
        accidental == CASE pitch.accidental = "None" -> 0
                        [] pitch.accidental = "Sharp" -> 1
                        [] pitch.accidental = "DoubleSharp" -> 2
                        [] pitch.accidental = "Flat" -> 0 - 1
                        [] pitch.accidental = "DoubleFlat" -> 0 - 2
    IN  MidiNote_new(octave + name + accidental)

\* a variant of the conversion that reads the flats of a pitch class as naturals
Pitch_try_from_no_flats(m) ==
    LET note_int == MidiNote_get_note(m)
        octave_int == note_int \div 12
        pc_int == note_int % 12
    IN  IF octave_int - 1 \notin (0 - 1)..9
        THEN Err(<<"Invalid octave integer", Display(octave_int - 1)>>)
        ELSE IF octave_int - 1 = 0 - 1
        THEN Ok([octave |-> "None", note_name |-> "None", accidental |-> "None"])
        ELSE Ok([octave |-> <<"S0", "S1", "S2", "S3", "S4",
                              "S5", "S6", "S7", "S8", "S9">>[octave_int],
                 note_name |-> <<"C", "C", "D", "E", "E", "F",
                                 "F", "G", "A", "A", "B", "B">>[pc_int + 1],
                 accidental |-> CASE pc_int \in {1, 6} -> "Sharp"
                                  [] OTHER -> "None"])

\* impl TryFrom<&MidiNote> for Pitch; octave_int - 1 selects the octave,
\* pc_int the letter and the accidental
Pitch_try_from(m) ==
    LET note_int == MidiNote_get_note(m)
        octave_int == note_int \div 12
        pc_int == note_int % 12
    IN  IF octave_int - 1 \notin (0 - 1)..9
        THEN Err(<<"Invalid octave integer", Display(octave_int - 1)>>)
        ELSE IF octave_int - 1 = 0 - 1
        THEN Ok([octave |-> "None", note_name |-> "None", accidental |-> "None"])
        ELSE Ok([octave |-> <<"S0", "S1", "S2", "S3", "S4",
                              "S5", "S6", "S7", "S8", "S9">>[octave_int],
                 note_name |-> <<"C", "C", "D", "E", "E", "F",
                                 "F", "G", "A", "A", "B", "B">>[pc_int + 1],
                 accidental |-> CASE pc_int \in {0, 2, 4, 5, 7, 9, 11} -> "None"
                                  [] pc_int \in {1, 6}                 -> "Sharp"
                                  [] pc_int \in {3, 8, 10}             -> "Flat"])

MidiOps == {"MidiNote::new", "MidiNote::default", "MidiNote::try_from"}

\* a run starts from a Pitch, from an integer, or from nothing
MidiInit ==
    /\ \/ \E pitch \in [note_name : NoteName, octave : Octave, accidental : Accidental] :
            src = [kind |-> "pitch", v |-> pitch]
       \/ \E n \in (0 - MaxNegative)..MaxMidi : src = [kind |-> "int", v |-> n]
       \/ src = [kind |-> "none"]
    /\ text = <<>>
    /\ ly = None
    /\ note = None
    /\ trail = <<>>
    /\ CellsInit
    /\ calls = <<>>

MidiNoteNew ==
    /\ trail = <<>>
    /\ src.kind = "int"
    /\ note' = MidiNote_new(src.v)
    /\ trail' = <<"MidiNote::new">>
    /\ UNCHANGED <<text, ly, src>>
    /\ Deref({})

MidiNoteDefault ==
    /\ trail = <<>>
    /\ src.kind = "none"
    /\ note' = Ok(MidiNote_default)
    /\ trail' = <<"MidiNote::default">>
    /\ UNCHANGED <<text, ly, src>>
    /\ Deref({})

\* MidiNote::try_from on the Pitch of the caller, or on the Pitch just converted
MidiNoteTryFrom ==
    /\ \/ trail = <<>> /\ src.kind = "pitch" /\ note' = MidiNote_try_from(src.v)
       \/ /\ Len(trail) = 2
          /\ Last(trail) = "Pitch::try_from"
          /\ note.tag = "Ok"
          /\ note' = MidiNote_try_from(note.v)
    /\ trail' = Append(trail, "MidiNote::try_from")
    /\ UNCHANGED <<text, ly, src>>
    /\ Deref({})

\* Pitch::try_from on the MidiNote just obtained
PitchTryFrom ==
    /\ Len(trail) = 1
    /\ Last(trail) \in MidiOps
    /\ note.tag = "Ok"
    /\ note' = Pitch_try_from(note.v)
    /\ trail' = Append(trail, "Pitch::try_from")
    /\ UNCHANGED <<text, ly, src>>
    /\ Deref({})

MidiNext ==
    \/ MidiNoteNew
    \/ MidiNoteDefault
    \/ MidiNoteTryFrom
    \/ PitchTryFrom

SpecMidi == MidiInit /\ [][MidiNext]_vars

---------------------------------------------------------------------------
(* notation/key.rs: a Key is None, or Sharps(n) or Flats(n) of a u8 n.     *)

\* the keys handed to KeySignature::new carry 0..MaxAccidentals accidentals
MaxAccidentals == 60

Key_None == [kind |-> "None"]
Key_Sharps(n) == [kind |-> "Sharps", n |-> n]
Key_Flats(n) == [kind |-> "Flats", n |-> n]

\* a variant of the check that lets eight accidentals pass
check_num_accidentals_eight(num) ==
    IF num > 8 THEN Err(num) ELSE Ok(num)

\* num.cmp(&7): Greater is Err(num), anything else Ok(num)
check_num_accidentals(num) ==
    IF num > 7 THEN Err(num) ELSE Ok(num)

KeySignature_new(key) ==
    IF key.kind = "None"
    THEN Ok([key |-> key])
    ELSE LET checked == check_num_accidentals(key.n)
         IN  IF checked.tag = "Ok"
             THEN Ok([key |-> key])
             ELSE Err(<<"Invalid number of accidentals", Display(checked.msg)>>)

KeySignature_get_key(k) == k.key

KeyInit ==
    /\ \E n \in 0..MaxAccidentals :
            src \in {[kind |-> "key", v |-> Key_None],
                     [kind |-> "key", v |-> Key_Sharps(n)],
                     [kind |-> "key", v |-> Key_Flats(n)]}
    /\ text = <<>>
    /\ ly = None
    /\ note = None
    /\ trail = <<>>
    /\ CellsInit
    /\ calls = <<>>

KeySignatureNew ==
    /\ trail = <<>>
    /\ note' = KeySignature_new(src.v)
    /\ trail' = <<"KeySignature::new">>
    /\ UNCHANGED <<text, ly, src>>
    /\ Deref({})

\* get_key on the KeySignature just built
KeySignatureGetKey ==
    /\ trail = <<"KeySignature::new">>
    /\ note.tag = "Ok"
    /\ note' = Ok(KeySignature_get_key(note.v))
    /\ trail' = Append(trail, "get_key")
    /\ UNCHANGED <<text, ly, src>>
    /\ Deref({})

KeyNext ==
    \/ KeySignatureNew
    \/ KeySignatureGetKey

SpecKey == KeyInit /\ [][KeyNext]_vars

---------------------------------------------------------------------------
(* parser.rs: curly_brackets is nom's delimited(char('{'), is_not("}"),    *)
(* char('}')).  A parser returns Ok with the remaining input and its       *)
(* output, or Err with the kind of the parser that failed and the input it *)
(* failed on.                                                              *)

\* the input strings of curly_brackets have 0..MaxInput characters
MaxInput == 4

\* nom::character::complete::char
char(c, input) ==
    IF input # <<>> /\ input[1] = c
    THEN Ok([rest |-> Drop(input, 1), out |-> c])
    ELSE Err(<<"Char", input>>)

\* nom::bytes::complete::is_not: the longest slice before a character of
\* arr, which must not be empty
is_not(arr, input) ==
    LET stops == {i \in 1..Len(input) : input[i] \in arr}
        stop == IF stops = {} THEN Len(input) + 1
                ELSE CHOOSE i \in stops : \A j \in stops : i <= j
    IN  IF stop = 1
        THEN Err(<<"IsNot", input>>)
        ELSE Ok([rest |-> Drop(input, stop - 1), out |-> SubSeq(input, 1, stop - 1)])

\* delimited runs the three parsers in turn and returns the output of the
\* second with the input the third leaves
curly_brackets(input) ==
    LET first == char("{", input)
    IN  IF first.tag # "Ok" THEN first
        ELSE LET second == is_not({"}"}, first.v.rest)
             IN  IF second.tag # "Ok" THEN second
                 ELSE LET third == char("}", second.v.rest)
                      IN  IF third.tag # "Ok" THEN third
                          ELSE Ok(<<third.v.rest, second.v.out>>)

ParserInputs == UNION {[1..n -> {"{", "}", "c", " "}] : n \in 0..MaxInput}

ParserInit ==
    /\ text \in ParserInputs
    /\ ly = None
    /\ note = None
    /\ src = [kind |-> "input", v |-> text]
    /\ trail = <<>>
    /\ CellsInit
    /\ calls = <<>>

CurlyBrackets ==
    /\ trail = <<>>
    /\ note' = curly_brackets(text)
    /\ trail' = <<"curly_brackets">>
    /\ UNCHANGED <<text, ly, src>>
    /\ Deref({})

ParserNext == CurlyBrackets

SpecParser == ParserInit /\ [][ParserNext]_vars

---------------------------------------------------------------------------
(* Concurrent callers.  Each thread makes one call; a call dereferences    *)
(* its statics in the order of its code and then computes its result from  *)
(* the values the cells hold.  A dereference of a cell that is not done    *)
(* follows std::sync::Once: one thread runs the initializer while the      *)
(* others wait for it, and an initializer that dereferences another static *)
(* goes through the same steps for it first.                               *)

Threads == {"t1", "t2"}

\* the statics a call dereferences, in order
CallStatics(op) ==
    CASE op = "LilyPondNote::new"  -> <<"LILYPOND_NOTE_REGEX">>
      [] op = "note_from_lilypond" -> <<"NOTE_NAME_LANGUAGE", "LILYPOND_NOTE_REGEX">>
      [] op = "lilypond_from_note" -> <<"NOTE_NAME_LANGUAGE">>
      [] op = "LANGUAGE_STR"       -> <<"LANGUAGE_STR">>
      [] op = "NOTE_REGEX_STR"     -> <<"NOTE_REGEX_STR">>

\* the calls of the threads: "cis" validated, decoded, and its note encoded,
\* and the two public statics read
ThreadCalls ==
    LET cis == <<"c", "i", "s">>
    IN  <<[op |-> "LilyPondNote::new", arg |-> cis],
          [op |-> "LilyPondNote::new", arg |-> <<"c", "-", "f", "l", "a", "t">>],
          [op |-> "note_from_lilypond", arg |-> [note |-> cis]],
          [op |-> "lilypond_from_note",
           arg |-> [Note_new("C") EXCEPT !.pitch.accidental = "Sharp"]],
          [op |-> "LANGUAGE_STR", arg |-> <<>>],
          [op |-> "NOTE_REGEX_STR", arg |-> <<>>]>>

\* the result of a call, read from the cells it has dereferenced
CallResult(call, cs, overflow_checks) ==
    CASE call.op = "LilyPondNote::new" ->
            IF IsMatch(cs["LILYPOND_NOTE_REGEX"].v, call.arg)
            THEN Ok([note |-> call.arg]) ELSE [tag |-> "Err"]
      [] call.op = "note_from_lilypond" ->
            (CASE cs["NOTE_NAME_LANGUAGE"].v = "English" ->
                    english_note_from_lilypond(call.arg, overflow_checks)
               [] cs["NOTE_NAME_LANGUAGE"].v = "Nederlands" ->
                    nederlands_note_from_lilypond(call.arg, overflow_checks))
      [] call.op = "lilypond_from_note" ->
            (CASE cs["NOTE_NAME_LANGUAGE"].v = "English" ->
                    Ok(english_lilypond_from_note(call.arg))
               [] cs["NOTE_NAME_LANGUAGE"].v = "Nederlands" ->
                    Ok(nederlands_lilypond_from_note(call.arg)))
      [] call.op = "LANGUAGE_STR"   -> Ok(cs["LANGUAGE_STR"].v)
      [] call.op = "NOTE_REGEX_STR" -> Ok(cs["NOTE_REGEX_STR"].v)

\* a variant of Once that lets a second thread start an initializer that runs
OnceVacant_racy(cell) == cell.state # "done"

\* Once::call_once runs the closure of the thread that finds the cell untouched
OnceVacant(cell) == cell.state = "uninit"

\* the cells a thread has to see done before it goes on: the statics its
\* running initializer dereferences, or else the next static of its call
Wanted(call) ==
    IF call.stack # <<>> THEN CellDeps(Head(call.stack))
    ELSE IF call.todo # <<>> THEN {Head(call.todo)}
    ELSE {}

ThreadsInit ==
    /\ \E chosen \in [Threads -> 1..Len(ThreadCalls)] :
            calls = [t \in Threads |->
                        [op |-> ThreadCalls[chosen[t]].op, arg |-> ThreadCalls[chosen[t]].arg,
                         todo |-> CallStatics(ThreadCalls[chosen[t]].op), stack |-> <<>>,
                         result |-> None]]
    /\ CellsInit
    /\ text = <<>>
    /\ ly = None
    /\ note = None
    /\ src = [kind |-> "threads"]
    /\ trail = <<>>

\* thread t finds a cell it wants untouched and starts its initializer
Begin(t) ==
    /\ \E c \in Wanted(calls[t]) :
            /\ OnceVacant(cells[c])
            /\ cells' = [cells EXCEPT ![c] = Running(t)]
            /\ calls' = [calls EXCEPT ![t].stack = <<c>> \o @]
    /\ UNCHANGED <<text, ly, note, src, trail, inits>>

\* the initializer thread t runs returns, and the cell is done
Finish(t) ==
    /\ calls[t].stack # <<>>
    /\ \A d \in CellDeps(Head(calls[t].stack)) : cells[d].state = "done"
    /\ cells' = [cells EXCEPT ![Head(calls[t].stack)] =
                                    Done(CellInit(Head(calls[t].stack), cells))]
    /\ inits' = [inits EXCEPT ![Head(calls[t].stack)] = @ + 1]
    /\ calls' = [calls EXCEPT ![t].stack = Tail(@)]
    /\ UNCHANGED <<text, ly, note, src, trail>>

\* thread t reads the next static of its call, which is done
Read(t) ==
    /\ calls[t].stack = <<>>
    /\ calls[t].todo # <<>>
    /\ cells[Head(calls[t].todo)].state = "done"
    /\ calls' = [calls EXCEPT ![t].todo = Tail(@)]
    /\ UNCHANGED <<text, ly, note, src, trail, cells, inits>>

\* the call of thread t returns
Return(t) ==
    /\ calls[t].stack = <<>>
    /\ calls[t].todo = <<>>
    /\ calls[t].result = None
    /\ \E overflow_checks \in BOOLEAN :
            calls' = [calls EXCEPT ![t].result = CallResult(calls[t], cells, overflow_checks)]
    /\ UNCHANGED <<text, ly, note, src, trail, cells, inits>>

ThreadsNext ==
    \/ \E t \in Threads : Begin(t)
    \/ \E t \in Threads : Finish(t)
    \/ \E t \in Threads : Read(t)
    \/ \E t \in Threads : Return(t)

SpecThreads == ThreadsInit /\ [][ThreadsNext]_vars

---------------------------------------------------------------------------
(* Vocabulary of the properties *)

Letters == {<<"a">>, <<"b">>, <<"c">>, <<"d">>, <<"e">>, <<"f">>, <<"g">>}

\* the octave level n as a value of Octave
Level(n) == <<"S0", "S1", "S2", "S3", "S4", "S5", "S6", "S7", "S8", "S9">>[n + 1]

AllOf(s, c) == \A i \in 1..Len(s) : s[i] = c

\* the session has just validated a string of the caller
JustValidated == trail = <<"new">>

\* the session has decoded a string of the caller that the gate accepted
JustDecoded == Len(trail) = 2 /\ trail[1] = "new" /\ trail[2] \in DecodeOps

\* the session has encoded the note it decoded from a string of the caller
DecodedThenEncoded ==
    /\ Len(trail) >= 3
    /\ trail[1] = "new"
    /\ trail[2] \in DecodeOps
    /\ Last(trail) \in EncodeOps

\* the session has encoded a note of the caller
JustEncoded == Len(trail) >= 2 /\ trail[1] = "build" /\ Last(trail) \in EncodeOps

\* the session has decoded the LilyPondNote it encoded from a note of the caller
EncodedThenDecoded ==
    /\ Len(trail) >= 3
    /\ trail[1] = "build"
    /\ Last(trail) \in DecodeOps

\* a sounding note has a letter and an octave level, a rest has no pitch
RestConsistent(n) ==
    \/ /\ n.rhythm.duration_type = "Rest"
       /\ n.pitch.note_name = "None"
       /\ n.pitch.octave = "None"
       /\ n.pitch.accidental = "None"
    \/ /\ n.rhythm.duration_type = "Note"
       /\ n.pitch.note_name # "None"
       /\ n.pitch.octave # "None"

---------------------------------------------------------------------------
(* C1: LilyPondNote::new(text) is Ok exactly when the grammar of the       *)
(* selected dialect, NOTE_REGEX_STR, accepts text.                         *)
C1_GateIsDialectGrammar ==
    JustValidated => ((ly.tag = "Ok") <=> IsMatch(NOTE_REGEX_STR, text))

(* C2: a Note that satisfies the rest-consistency invariant is encoded to  *)
(* a LilyPondNote, and decoding that LilyPondNote yields the Note again.   *)
C2_EncodeThenDecode ==
    (src.kind = "note" /\ RestConsistent(src.v)) =>
        /\ (JustEncoded /\ Last(trail) = "to_lilypond_note") => ly.tag = "Ok"
        /\ EncodedThenDecoded => note = Ok(src.v)

\* the single spelling the encoder emits for an accepted accidental
CanonicalAccidental(a) ==
    CASE a \in {<<"s">>, <<"i", "s">>}                     -> <<"s">>
      [] a \in {<<"s", "s">>, <<"i", "s", "i", "s">>}      -> <<"s", "s">>
      [] a \in {<<"f">>, <<"e", "s">>}                     -> <<"f">>
      [] a \in {<<"f", "f">>, <<"e", "s", "e", "s">>}      -> <<"f", "f">>
      [] OTHER                                              -> a

\* the canonical form of an accepted string
CanonicalForm(s) ==
    LET caps == Match(LILYPOND_NOTE_REGEX, s).caps
        duration == IF caps[4] = <<>> THEN <<"4">> ELSE caps[4]
    IN  IF caps[1] = <<"r">>
        THEN <<"r">> \o duration \o caps[5]
        ELSE caps[1] \o CanonicalAccidental(caps[2]) \o caps[3] \o duration \o caps[5]

(* C3: every string accepted by LilyPondNote::new decodes, and encoding    *)
(* the decoded Note yields the canonical form of the string.               *)
C3_DecodeThenEncode ==
    /\ JustDecoded => note.tag = "Ok"
    /\ DecodedThenEncoded => text = CanonicalForm(src.v)
    /\ (DecodedThenEncoded /\ Last(trail) = "to_lilypond_note") =>
            ly = Ok([note |-> CanonicalForm(src.v)])

ExpectedOctave(octave_string) ==
    IF AllOf(octave_string, "'")
    THEN Level(REFERENCE_OCTAVE + Len(octave_string))
    ELSE Level(REFERENCE_OCTAVE - Len(octave_string))

(* C5: for a sounding note, an octave field of n apostrophes (0 <= n <= 6) *)
(* decodes to level 3 + n, one of n commas (0 <= n <= 3) to level 3 - n    *)
(* and an empty one to S3.                                                 *)
C5_OctaveArithmetic ==
    (JustValidated /\ ly.tag = "Ok" /\ text[1] # "r") =>
        LET o == get_capture(ly.v, "octave")
        IN  /\ AllOf(o, "'") \/ AllOf(o, ",")
            /\ o = <<>> => ExpectedOctave(o) = "S3"
            /\ \A overflow_checks \in BOOLEAN :
                /\ octave_from_lilypond(ly.v, overflow_checks) = Ok(ExpectedOctave(o))
                /\ LilyPondNote_get_octave(ly.v, overflow_checks) = Ok(ExpectedOctave(o))
                /\ Note_get_octave(ly.v, overflow_checks) = Ok(ExpectedOctave(o))
                /\ LilyPondNote_to_note(ly.v, overflow_checks).v.pitch.octave
                        = ExpectedOctave(o)

C5_Witness ==
    /\ JustDecoded
    /\ text = <<"d", "'", "'", "'", "'", "'", "'">>
    /\ note.tag = "Ok"
    /\ note.v.pitch.octave = "S9"

PlainOctave(s, mark, lo, hi) ==
    /\ Len(s) - 1 \in lo..hi
    /\ <<s[1]>> \in Letters \cup {<<"r">>}
    /\ AllOf(Drop(s, 1), mark)

(* C7: LilyPondNote::new accepts a note name followed by 0 to 3 commas or  *)
(* by 0 to 6 apostrophes, rejects every string with more than 3 commas or  *)
(* more than 6 apostrophes, and so accepts no string whose octave field    *)
(* denotes an octave outside S0..S9.                                       *)
C7_GateBoundsOctave ==
    JustValidated =>
        /\ (Count(text, ",") > 3 \/ Count(text, "'") > 6) => ly.tag = "Err"
        /\ (text # <<>> /\ (PlainOctave(text, ",", 0, 3) \/ PlainOctave(text, "'", 0, 6)))
                => ly.tag = "Ok"
        /\ ly.tag = "Ok" =>
                LET o == get_capture(ly.v, "octave")
                IN  \/ AllOf(o, ",") /\ Len(o) <= 3
                    \/ AllOf(o, "'") /\ Len(o) <= 6

C7_Witness ==
    /\ JustValidated
    /\ text = <<"c", ",", ",", ",", ",">>
    /\ ly.tag = "Err"

SharpTokens == {<<"s">>, <<"i", "s">>, LongSharp}
FlatTokens == {<<"f">>, <<"e", "s">>, LongFlat}

\* a comma and an apostrophe, or a sharp token next to a flat token right
\* after the note name
Mixed(s) ==
    \/ Contains(s, ",") /\ Contains(s, "'")
    \/ \E sharp \in SharpTokens, flat \in FlatTokens :
            IsAt(sharp \o flat, s, 2) \/ IsAt(flat \o sharp, s, 2)

(* C8: a string with mixed octave marks or mixed accidental tokens is      *)
(* never turned into a Note: LilyPondNote::new fails for it, or every      *)
(* decoder does.                                                           *)
C8_MixedRejected ==
    /\ (JustValidated /\ Mixed(text)) =>
            \/ ly.tag = "Err"
            \/ \A overflow_checks \in BOOLEAN :
                    /\ LilyPondNote_to_note(ly.v, overflow_checks).tag # "Ok"
                    /\ Note_from(ly.v, overflow_checks).tag # "Ok"
                    /\ note_from_lilypond(ly.v, overflow_checks).tag # "Ok"
    /\ (JustDecoded /\ Mixed(src.v)) => note.tag # "Ok"

C8_Witness ==
    /\ JustValidated
    /\ text = <<"a", "f", "s">>
    /\ Mixed(text)
    /\ ly.tag = "Err"

(* C9: an accepted string whose note name is "r" decodes to a rest with    *)
(* note_name, octave and accidental None, whatever follows the "r".        *)
C9_RestDecodesToNone ==
    (JustDecoded /\ src.v[1] = "r") =>
        /\ note.tag = "Ok"
        /\ note.v.rhythm.duration_type = "Rest"
        /\ note.v.pitch = [note_name |-> "None", octave |-> "None", accidental |-> "None"]

C9_Witness ==
    /\ JustDecoded
    /\ src.v = <<"r", "f", "f">>
    /\ trail[2] = "note_from_lilypond"
    /\ note.tag = "Ok"
    /\ note.v.rhythm.duration_type = "Rest"

(* C10: the encoding of a Note with duration_type Rest is "r", the length  *)
(* literal and the dots, whatever the pitch fields of the Note hold.       *)
C10_RestEncodesBare ==
    (JustEncoded /\ src.v.rhythm.duration_type = "Rest") =>
        text = <<"r">> \o Length_to_string(src.v.rhythm.length)
                    \o Repeat(<<".">>, src.v.rhythm.dots)

\* the session has built a note with Note::new
JustConstructed == trail = <<"Note::new">>

\* the session has encoded a note built with Note::new
ConstructedThenEncoded ==
    /\ Len(trail) >= 2
    /\ trail[1] = "Note::new"
    /\ Last(trail) \in EncodeOps

(* C11, as stated: in every Note decoded from an accepted string,          *)
(* duration_type = Rest iff note_name = None iff octave = None iff         *)
(* accidental = None.                                                      *)
C11_InvariantWithAccidental ==
    (JustDecoded /\ note.tag = "Ok") =>
        LET rest == note.v.rhythm.duration_type = "Rest"
        IN  /\ rest <=> note.v.pitch.note_name = "None"
            /\ rest <=> note.v.pitch.octave = "None"
            /\ rest <=> note.v.pitch.accidental = "None"

(* C11, amended: in every Note decoded from an accepted string,            *)
(* duration_type = Rest iff note_name = None iff octave = None, and a rest *)
(* has accidental None; a sounding note without accidental has accidental  *)
(* None too.                                                               *)
C11_InvariantOfDecoded ==
    (JustDecoded /\ note.tag = "Ok") =>
        LET rest == note.v.rhythm.duration_type = "Rest"
        IN  /\ rest <=> note.v.pitch.note_name = "None"
            /\ rest <=> note.v.pitch.octave = "None"
            /\ rest => note.v.pitch.accidental = "None"
            /\ (~rest /\ get_capture(ly.v, "accidental") = <<>>)
                    => note.v.pitch.accidental = "None"

C11_Witness ==
    /\ JustDecoded
    /\ src.v = <<"c">>
    /\ note.tag = "Ok"
    /\ note.v.rhythm.duration_type = "Note"
    /\ note.v.pitch.accidental = "None"

(* C12: Note::new(NoteName::None) is a full rest: duration_type Rest,      *)
(* note_name, octave and accidental None, length Quarter, no dots.         *)
C12_NewRestIsFullRest ==
    (JustConstructed /\ src.arg = "None") =>
        note = Ok([pitch |-> [note_name |-> "None", octave |-> "None",
                              accidental |-> "None"],
                   rhythm |-> [length |-> "Quarter", dots |-> 0,
                               duration_type |-> "Rest"]])

(* C13: for a letter L of A..G, Note::new(L) is a sounding note with       *)
(* octave S3, no accidental, length Quarter and no dots, and its encoding  *)
(* is the lowercase letter followed by "4".                                *)
C13_NewLetterDefaults ==
    /\ (JustConstructed /\ src.arg # "None") =>
            note = Ok([pitch |-> [note_name |-> src.arg, octave |-> "S3",
                                  accidental |-> "None"],
                       rhythm |-> [length |-> "Quarter", dots |-> 0,
                                   duration_type |-> "Note"]])
    /\ (ConstructedThenEncoded /\ src.arg # "None") =>
            /\ text = LetterToString(src.arg) \o <<"4">>
            /\ <<text[1]>> \in Letters
            /\ Last(trail) = "to_lilypond_note" => ly = Ok([note |-> text])

C13_Witness ==
    /\ ConstructedThenEncoded
    /\ Last(trail) = "to_lilypond_note"
    /\ src.arg = "A"
    /\ text = <<"a", "4">>
    /\ ly.tag = "Ok"

\* a string of k dots
DotString(k) == [i \in 1..k |-> "."]

\* the number of dots a string ends in
TrailingDots(s) ==
    LET ks == {k \in 0..Len(s) : \A i \in (Len(s) - k + 1)..Len(s) : s[i] = "."}
    IN  CHOOSE k \in ks : \A j \in ks : j <= k

\* a note name, a length literal and dots
PlainDotted(s) ==
    /\ Len(s) >= 2
    /\ <<s[1]>> \in Letters \cup {<<"r">>}
    /\ s[2] \in {"4", "8"}
    /\ AllOf(Drop(s, 2), ".")

(* C14: for every k up to the maximum of the dot field, a string ending    *)
(* in k dots is accepted and decodes to dots = k, and a Note with k dots   *)
(* is encoded with k dots.                                                 *)
C14_DotsCount ==
    /\ (JustValidated /\ PlainDotted(text) /\ TrailingDots(text) <= DOT_FIELD_MAX)
            => ly.tag = "Ok"
    /\ (JustDecoded /\ PlainDotted(src.v)) =>
            /\ note.tag = "Ok"
            /\ note.v.rhythm.dots = TrailingDots(src.v)
    /\ JustEncoded => TrailingDots(text) = src.v.rhythm.dots

\* the number a string of decimal digits denotes
DigitValue(c) ==
    CASE c = "0" -> 0 [] c = "1" -> 1 [] c = "2" -> 2 [] c = "3" -> 3 [] c = "4" -> 4
      [] c = "5" -> 5 [] c = "6" -> 6 [] c = "7" -> 7 [] c = "8" -> 8 [] c = "9" -> 9

RECURSIVE DecimalValue(_)
DecimalValue(s) ==
    IF s = <<>> THEN 0
    ELSE 10 * DecimalValue(SubSeq(s, 1, Len(s) - 1)) + DigitValue(s[Len(s)])

IsDigit(c) == c \in {"0", "1", "2", "3", "4", "5", "6", "7", "8", "9"}

\* the digits of a string, in order
Digits(s) == SelectSeq(s, IsDigit)

(* C15: an accepted string without duration digits decodes to Quarter, one *)
(* with the literal d to the Length of numeric value d, the literal taken  *)
(* whole; the encoding of a Length is the decimal literal of its value.    *)
C15_LengthDecoding ==
    /\ (JustDecoded /\ note.tag = "Ok") =>
            /\ get_capture(ly.v, "duration") = Digits(src.v)
            /\ Digits(src.v) = <<>> => note.v.rhythm.length = "Quarter"
            /\ Digits(src.v) # <<>> =>
                    Length_as_u16(note.v.rhythm.length) = DecimalValue(Digits(src.v))
    /\ JustEncoded =>
            /\ Digits(text) # <<>>
            /\ DecimalValue(Digits(text)) = Length_as_u16(src.v.rhythm.length)

C15_Witness ==
    /\ JustDecoded
    /\ src.v = <<"c", "1", "2", "8">>
    /\ note.tag = "Ok"
    /\ note.v.rhythm.length = "OneTwentyEighth"

DurationLiterals ==
    {<<"1">>, <<"2">>, <<"4">>, <<"8">>, <<"1", "6">>, <<"3", "2">>, <<"6", "4">>,
     <<"1", "2", "8">>}

(* C16: LilyPondNote::new rejects a string whose digits are not one of the *)
(* eight duration literals, a string with a character other than a dot     *)
(* after a dot, a string with a character after its digits that is not a   *)
(* dot, and a string that does not start with one of a..g or r.            *)
C16_AnchoredClosedDuration ==
    (JustValidated /\ ly.tag = "Ok") =>
        /\ text # <<>>
        /\ <<text[1]>> \in Letters \cup {<<"r">>}
        /\ Digits(text) \in DurationLiterals \cup {<<>>}
        /\ \A i, j \in 1..Len(text) : (i < j /\ text[i] = ".") => text[j] = "."
        /\ \A i, j \in 1..Len(text) : (i < j /\ IsDigit(text[i])) =>
                (IsDigit(text[j]) \/ text[j] = ".")

C16_Witness ==
    /\ JustValidated
    /\ text = <<"c", "1", "6", "2">>
    /\ ly.tag = "Err"

(* C17: for an accepted string, get_note returns the string, get_capture   *)
(* returns for each field the part of the string the field matched (empty  *)
(* when absent), and the five captures in order make up the string.        *)
C17_CapturesPartition ==
    (JustValidated /\ ly.tag = "Ok") =>
        LET note_name == get_capture(ly.v, "note_name")
            accidental == get_capture(ly.v, "accidental")
            octave == get_capture(ly.v, "octave")
            duration == get_capture(ly.v, "duration")
            dot == get_capture(ly.v, "dot")
        IN  /\ LilyPondNote_get_note(ly.v) = text
            /\ note_name \o accidental \o octave \o duration \o dot = text
            /\ note_name = <<text[1]>>
            /\ accidental \in {<<>>, <<"f">>, <<"f", "f">>, <<"s">>, <<"s", "s">>,
                               <<"i", "s">>, <<"i", "s", "i", "s">>,
                               <<"e", "s">>, <<"e", "s", "e", "s">>}
            /\ AllOf(octave, ",") \/ AllOf(octave, "'")
            /\ Len(octave) = Count(text, ",") + Count(text, "'")
            /\ duration = Digits(text)
            /\ dot = DotString(Count(text, "."))

C17_Witness ==
    /\ JustValidated
    /\ text = <<"f", "s", ",", ",", ",", "1", "6", ".">>
    /\ ly.tag = "Ok"
    /\ get_capture(ly.v, "accidental") = <<"s">>
    /\ get_capture(ly.v, "octave") = <<",", ",", ",">>
    /\ get_capture(ly.v, "duration") = <<"1", "6">>

\* the Accidental an English spelling stands for
EnglishAccidentalOf(a) ==
    CASE a = <<>>                                               -> "None"
      [] a \in {<<"s">>, LongSharp}                             -> "Sharp"
      [] a \in {<<"s", "s">>, LongSharp \o Drop(LongSharp, 1)}  -> "DoubleSharp"
      [] a \in {<<"f">>, LongFlat}                              -> "Flat"
      [] a \in {<<"f", "f">>, LongFlat \o Drop(LongFlat, 1)}    -> "DoubleFlat"

C19_NoPanicOnText ==
    /\ JustValidated => ly.tag \in {"Ok", "Err"}
    /\ JustDecoded => note.tag \in {"Ok", "Err"}
    /\ (JustValidated /\ ly.tag = "Ok") =>
            \A overflow_checks \in BOOLEAN :
                /\ LilyPondNote_to_note(ly.v, overflow_checks).tag # "Panic"
                /\ Note_from(ly.v, overflow_checks).tag # "Panic"
                /\ note_from_lilypond(ly.v, overflow_checks).tag # "Panic"

C19_Witness ==
    /\ JustDecoded
    /\ src.v = <<"d", ",", ",", ",">>
    /\ trail[2] = "from"
    /\ note.tag = "Ok"
    /\ note.v.pitch.octave = "S0"

(* C20: for every Note, the string of the encoder is accepted by           *)
(* LilyPondNote::new: the validation that ends the encoding succeeds.      *)
C20_EncodingRevalidates ==
    (Len(trail) >= 2 /\ trail[1] \in {"build", "Note::new"}
        /\ Last(trail) = "to_lilypond_note") => ly.tag = "Ok"

(***************************************************************************)
(* C24                                                                     *)
(***************************************************************************)

\* a letter or the rest token followed by a suffix that spells no accidental
NoAccidentalSuffix(t) ==
    /\ Len(t) >= 1
    /\ <<t[1]>> \in Letters \cup {<<"r">>}
    /\ \A i \in 2..Len(t) : t[i] \in {",", "'", "."} \/ IsDigit(t[i])

\* C24: the English grammar accepts a letter or rest token followed by a
\* suffix without accidental spelling exactly when the Dutch grammar accepts
\* it, and then both capture the same octave, duration and dot.
C24_GrammarsShareSuffix ==
    (JustValidated /\ NoAccidentalSuffix(text)) =>
        LET en == Match(english_NOTE_REGEX_STR, text)
            nl == Match(nederlands_NOTE_REGEX_STR, text)
        IN  /\ en.ok <=> nl.ok
            /\ en.ok => \A g \in {"octave", "duration", "dot"} :
                            en.caps[GroupIndex(g)] = nl.caps[GroupIndex(g)]

\* "c,,8." is accepted by both grammars
C24_Witness ==
    /\ JustValidated
    /\ text = <<"c", ",", ",", "8", ".">>
    /\ NoAccidentalSuffix(text)
    /\ IsMatch(english_NOTE_REGEX_STR, text)
    /\ IsMatch(nederlands_NOTE_REGEX_STR, text)

(***************************************************************************)
(* C26                                                                     *)
(***************************************************************************)

\* the session has decoded with to_note or Note::from
DecodedByMethod ==
    JustDecoded /\ trail[2] \in {"to_note", "from"}

\* the session has encoded a note of the caller with to_lilypond_note
EncodedByMethod ==
    /\ Len(trail) = 2
    /\ trail[1] \in {"build", "Note::new"}
    /\ trail[2] = "to_lilypond_note"

\* C26: on a LilyPondNote built by new, to_note and Note::from give the same
\* outcome, and from_note gives on a Note what to_lilypond_note gives.
C26_SameFunctions ==
    /\ DecodedByMethod =>
        /\ \A overflow_checks \in BOOLEAN :
              LilyPondNote_to_note(ly.v, overflow_checks) = Note_from(ly.v, overflow_checks)
        /\ \E overflow_checks \in BOOLEAN : note = LilyPondNote_to_note(ly.v, overflow_checks)
        /\ \E overflow_checks \in BOOLEAN : note = Note_from(ly.v, overflow_checks)
    /\ EncodedByMethod => ly = LilyPondNote_from_note(src.v)

\* a dotted sounding note with an accidental, decoded by Note::from
C26_Witness ==
    /\ DecodedByMethod
    /\ trail[2] = "from"
    /\ note.tag = "Ok"
    /\ note.v.rhythm.dots = 1
    /\ note.v.pitch.accidental = "Flat"
    /\ note = LilyPondNote_to_note(ly.v, TRUE)

(***************************************************************************)
(* C23                                                                     *)
(***************************************************************************)

\* the four sub-decoders of english::note_from_lilypond, in the order of its fields
FieldResults(l, overflow_checks) ==
    <<english_note_name_from_lilypond(l), english_accidental_from_lilypond(l),
      octave_from_lilypond(l, overflow_checks), rhythm_from_lilypond(l)>>

\* the capture each sub-decoder reads
FieldCapture(l, i) ==
    get_capture(l, <<"note_name", "accidental", "octave", "duration">>[i])

C23_AccidentalFails ==
    /\ trail = <<"note_from_lilypond">>
    /\ text = <<"c", "i", "s">>
    /\ note = Err(<<"Invalid accidental", <<"i", "s">>>>)

(***************************************************************************)
(* C25                                                                     *)
(***************************************************************************)

\* the spelling the claim lists for an accidental in a dialect
ListedSpelling(dialect, accidental) ==
    CASE dialect = "English" ->
            (CASE accidental = "None"        -> <<>>
               [] accidental = "Sharp"       -> <<"s">>
               [] accidental = "DoubleSharp" -> <<"s", "s">>
               [] accidental = "Flat"        -> <<"f">>
               [] accidental = "DoubleFlat"  -> <<"f", "f">>)
      [] dialect = "Nederlands" ->
            (CASE accidental = "None"        -> <<>>
               [] accidental = "Sharp"       -> <<"i", "s">>
               [] accidental = "DoubleSharp" -> <<"i", "s", "i", "s">>
               [] accidental = "Flat"        -> <<"e", "s">>
               [] accidental = "DoubleFlat"  -> <<"e", "s", "e", "s">>)

DialectGrammar(dialect) ==
    CASE dialect = "English"    -> english_NOTE_REGEX_STR
      [] dialect = "Nederlands" -> nederlands_NOTE_REGEX_STR

\* C25: a letter a..g followed by the encoder's spelling of an accidental is
\* the letter followed by the listed spelling, the dialect's grammar accepts
\* it with the letter alone as note_name and the spelling as accidental, and
\* the dialect's decoder reads the accidental back.
C25_TablesInverse ==
    (src.kind = "table" /\ trail # <<>>) =>
        LET letter == LetterToString(src.v.pitch.note_name)
            spelling == ListedSpelling(src.dialect, src.v.pitch.accidental)
            m == Match(DialectGrammar(src.dialect), text)
        IN  /\ text = letter \o spelling
            /\ m.ok
            /\ m.caps[GroupIndex("note_name")] = letter
            /\ m.caps[GroupIndex("accidental")] = spelling
            /\ Len(trail) >= 2 =>
                    /\ ly.tag = "Ok"
                    /\ get_capture(ly.v, "note_name") = letter
            /\ Len(trail) = 3 => note = Ok(src.v.pitch.accidental)

\* "fff", the letter f with the English double flat, decodes to DoubleFlat
C25_Witness ==
    /\ src.kind = "table"
    /\ Len(trail) = 3
    /\ src.dialect = "English"
    /\ text = <<"f", "f", "f">>
    /\ note = Ok("DoubleFlat")

\* "ees", the letter e with the Dutch flat, decodes to Flat
C25_DutchFlatOfE ==
    /\ src.kind = "table"
    /\ Len(trail) = 3
    /\ src.dialect = "Nederlands"
    /\ text = <<"e", "e", "s">>
    /\ note = Ok("Flat")

(***************************************************************************)
(* C27, C28                                                                *)
(***************************************************************************)

\* the semitone of a letter above C
SemitoneOf(note_name) ==
    CASE note_name = "C" -> 0 [] note_name = "D" -> 2 [] note_name = "E" -> 4
      [] note_name = "F" -> 5 [] note_name = "G" -> 7 [] note_name = "A" -> 9
      [] note_name = "B" -> 11

\* the semitones an accidental adds
OffsetOf(accidental) ==
    CASE accidental = "None" -> 0 [] accidental = "Sharp" -> 1
      [] accidental = "DoubleSharp" -> 2 [] accidental = "Flat" -> 0 - 1
      [] accidental = "DoubleFlat" -> 0 - 2

\* the level n of the octave Sn
LevelOf(octave) == CHOOSE n \in 0..9 : Level(n) = octave

RestPitch == [note_name |-> "None", octave |-> "None", accidental |-> "None"]

\* C27: MidiNote::try_from of a pitch with a letter and an octave S0..S9 is
\* Ok with 12 * (level + 1) + semitone of the letter + offset of the
\* accidental, which is not negative; of the rest pitch it is Ok with 0; and
\* every MidiNote obtained from new, default or try_from holds a value that
\* is not negative.
C27_MidiOfPitch ==
    /\ (trail = <<"MidiNote::try_from">> /\ src.kind = "pitch") =>
        /\ (src.v.note_name # "None" /\ src.v.octave # "None") =>
              LET expected == 12 * (LevelOf(src.v.octave) + 1)
                                + SemitoneOf(src.v.note_name) + OffsetOf(src.v.accidental)
              IN  expected >= 0 /\ note = Ok([note |-> expected])
        /\ src.v = RestPitch => note = Ok([note |-> 0])
    /\ (trail # <<>> /\ Last(trail) \in MidiOps /\ note.tag = "Ok") =>
            MidiNote_get_note(note.v) >= 0

\* C with a double flat in octave S0 is the MIDI note 10
C27_Witness ==
    /\ trail = <<"MidiNote::try_from">>
    /\ src.kind = "pitch"
    /\ src.v = [note_name |-> "C", octave |-> "S0", accidental |-> "DoubleFlat"]
    /\ note = Ok([note |-> 10])

\* C28: for a MIDI integer n of 12..131, Pitch::try_from succeeds with the
\* octave of level n / 12 - 1 and MidiNote::try_from of that pitch gives n
\* again; for n of 0..11 it gives the rest pitch; for n of 132 or more it
\* gives the invalid-octave error.
C28_PitchOfMidi ==
    (src.kind = "int" /\ Len(trail) >= 2 /\ trail[1] = "MidiNote::new") =>
        /\ trail[2] = "Pitch::try_from"
        /\ Len(trail) = 2 =>
            /\ src.v \in 12..131 =>
                  /\ note.tag = "Ok"
                  /\ note.v.octave = Level(src.v \div 12 - 1)
                  /\ MidiNote_try_from(note.v) = Ok([note |-> src.v])
            /\ src.v \in 0..11 => note = Ok(RestPitch)
            /\ src.v >= 132 =>
                  /\ note.tag = "Err"
                  /\ note.msg[1] = "Invalid octave integer"
        /\ Len(trail) = 3 =>
            /\ trail[3] = "MidiNote::try_from"
            /\ src.v \in 12..131 => note = Ok([note |-> src.v])

\* 58, the B flat of octave S3, comes back from its pitch
C28_Witness ==
    /\ src.kind = "int"
    /\ src.v = 58
    /\ trail = <<"MidiNote::new", "Pitch::try_from", "MidiNote::try_from">>
    /\ note = Ok([note |-> 58])

\* 132 has no octave
C28_AboveRange ==
    /\ src.kind = "int"
    /\ src.v = 132
    /\ trail = <<"MidiNote::new", "Pitch::try_from">>
    /\ note = Err(<<"Invalid octave integer", <<"1", "0">>>>)

(***************************************************************************)
(* C29                                                                     *)
(***************************************************************************)

\* C29: KeySignature::new(key) is Ok and holds key unchanged exactly when
\* key is Key::None or carries at most 7 accidentals; with n > 7 accidentals
\* it is Err("Invalid number of accidentals n.").
C29_KeySignatureNew ==
    (src.kind = "key" /\ trail # <<>>) =>
        LET valid == src.v.kind = "None" \/ src.v.n <= 7
        IN  /\ trail = <<"KeySignature::new">> =>
                /\ note.tag = "Ok" <=> valid
                /\ valid => KeySignature_get_key(note.v) = src.v
                /\ ~valid =>
                      /\ note.tag = "Err"
                      /\ note.msg[1] = "Invalid number of accidentals"
                      /\ \A i \in 1..Len(note.msg[2]) : IsDigit(note.msg[2][i])
                      /\ DecimalValue(note.msg[2]) = src.v.n
            /\ Len(trail) = 2 => valid /\ note = Ok(src.v)

\* seven flats are a key signature
C29_Witness ==
    /\ src.kind = "key"
    /\ src.v = Key_Flats(7)
    /\ trail = <<"KeySignature::new", "get_key">>
    /\ note = Ok(Key_Flats(7))

\* eight sharps are not
C29_EightSharps ==
    /\ src.kind = "key"
    /\ src.v = Key_Sharps(8)
    /\ trail = <<"KeySignature::new">>
    /\ note = Err(<<"Invalid number of accidentals", <<"8">>>>)

(***************************************************************************)
(* C30                                                                     *)
(***************************************************************************)

\* text is "{" + c + "}" + r with no "}" in c, the c ending before position k
BracketedUpTo(t, k) ==
    /\ k \in 2..Len(t)
    /\ t[1] = "{"
    /\ t[k] = "}"
    /\ \A i \in 2..(k - 1) : t[i] # "}"

\* C30: curly_brackets("{" + c + "}" + r), c without "}", is Ok((r, c)); an
\* input that does not start with "{" or has no closing "}" is an error.
C30_CurlyBrackets ==
    (src.kind = "input" /\ trail = <<"curly_brackets">>) =>
        /\ \A k \in 2..Len(text) :
              BracketedUpTo(text, k) =>
                 note = Ok(<<SubSeq(text, k + 1, Len(text)), SubSeq(text, 2, k - 1)>>)
        /\ (text = <<>> \/ text[1] # "{" \/ ~Contains(text, "}")) => note.tag = "Err"

\* the same with a content of at least one character
C30_NonEmptyContent ==
    (src.kind = "input" /\ trail = <<"curly_brackets">>) =>
        /\ \A k \in 3..Len(text) :
              BracketedUpTo(text, k) =>
                 note = Ok(<<SubSeq(text, k + 1, Len(text)), SubSeq(text, 2, k - 1)>>)
        /\ (text = <<>> \/ text[1] # "{" \/ ~Contains(text, "}")) => note.tag = "Err"

(***************************************************************************)
(* C21, C22                                                                *)
(***************************************************************************)

\* the call of thread t has returned
Returned(t) == calls[t].result # None

\* C21: whenever it is initialised, NOTE_NAME_LANGUAGE is English,
\* LANGUAGE_STR is "english", NOTE_REGEX_STR is the English grammar and
\* LILYPOND_NOTE_REGEX the pattern of the gate; and no step of any call
\* changes a cell that is initialised.
C21_DialectFixed ==
    /\ [](/\ cells["NOTE_NAME_LANGUAGE"].state = "done" =>
                cells["NOTE_NAME_LANGUAGE"].v = "English"
          /\ cells["LANGUAGE_STR"].state = "done" =>
                cells["LANGUAGE_STR"].v = <<"e", "n", "g", "l", "i", "s", "h">>
          /\ cells["NOTE_REGEX_STR"].state = "done" =>
                cells["NOTE_REGEX_STR"].v = english_NOTE_REGEX_STR
          /\ cells["LILYPOND_NOTE_REGEX"].state = "done" =>
                cells["LILYPOND_NOTE_REGEX"].v =
                    <<NoteNameGroup, GateAccidentalGroup, OctaveGroup, DurationGroup,
                      GateDotGroup>>)
    /\ [][\A c \in CellNames : cells[c].state = "done" => cells'[c] = cells[c]]_vars

\* both threads have returned, one read LANGUAGE_STR and one NOTE_REGEX_STR
C21_Witness ==
    /\ DOMAIN calls = Threads
    /\ \A t \in Threads : Returned(t)
    /\ calls["t1"].op = "LANGUAGE_STR"
    /\ calls["t2"].op = "NOTE_REGEX_STR"
    /\ calls["t1"].result = Ok(<<"e", "n", "g", "l", "i", "s", "h">>)
    /\ cells["NOTE_NAME_LANGUAGE"] = Done("English")

\* thread t has a step to take
CanMove(t) ==
    \/ \E c \in Wanted(calls[t]) : cells[c].state = "uninit"
    \/ calls[t].stack # <<>>
            /\ \A d \in CellDeps(Head(calls[t].stack)) : cells[d].state = "done"
    \/ calls[t].stack = <<>> /\ calls[t].todo # <<>>
            /\ cells[Head(calls[t].todo)].state = "done"
    \/ calls[t].stack = <<>> /\ calls[t].todo = <<>> /\ ~Returned(t)

\* the results a call has when it runs alone
SoloResults(call) ==
    CASE call.op = "LilyPondNote::new"  -> {LilyPondNote_new(call.arg)}
      [] call.op = "note_from_lilypond" ->
            {note_from_lilypond(call.arg, overflow_checks) : overflow_checks \in BOOLEAN}
      [] call.op = "lilypond_from_note" -> {Ok(lilypond_from_note(call.arg))}
      [] call.op = "LANGUAGE_STR"       -> {Ok(LANGUAGE_STR)}
      [] call.op = "NOTE_REGEX_STR"     -> {Ok(NOTE_REGEX_STR)}

\* C22: in every interleaving, a call that has returned has the result it
\* has alone, every initializer has run at most once, a thread whose call
\* has not returned is never left without a step while no other can move,
\* no step changes the call or the argument of a thread, and a cell changes
\* only on its way from untouched to done.
C22_CallsIndependent ==
    /\ [](DOMAIN calls = Threads =>
            /\ \A t \in Threads : Returned(t) => calls[t].result \in SoloResults(calls[t])
            /\ \A c \in CellNames : inits[c] <= 1
            /\ (\E t \in Threads : ~Returned(t)) => \E t \in Threads : CanMove(t))
    /\ [][DOMAIN calls = Threads =>
            /\ \A t \in Threads : calls'[t].op = calls[t].op /\ calls'[t].arg = calls[t].arg
            /\ \A c \in CellNames :
                  cells'[c] # cells[c] =>
                      \/ cells[c].state = "uninit" /\ cells'[c].state = "running"
                      \/ cells[c].state = "running" /\ cells'[c].state = "done"]_vars

\* two decodes raced on the dialect and on the pattern: both returned the
\* error of the English decoder and each initializer ran once
C22_Witness ==
    /\ DOMAIN calls = Threads
    /\ \A t \in Threads :
            /\ calls[t].op = "note_from_lilypond"
            /\ calls[t].result = Err(<<"Invalid accidental", <<"i", "s">>>>)
    /\ inits["NOTE_NAME_LANGUAGE"] = 1
    /\ inits["LILYPOND_NOTE_REGEX"] = 1

\* a thread waits for the initializer another thread runs
C22_Waiting ==
    /\ DOMAIN calls = Threads
    /\ cells["NOTE_NAME_LANGUAGE"] = Running("t1")
    /\ calls["t2"].stack = <<>>
    /\ calls["t2"].todo # <<>>
    /\ Head(calls["t2"].todo) = "NOTE_NAME_LANGUAGE"

===========================================================================
